---- MODULE Spec2Model ----
(***************************************************************************)
(* State-machine model of the three containers of concurrent_impl:         *)
(*   concurrent_queue  (src/tests/common/test_common.hpp, lines 92-615)    *)
(*   concurrent_vector (src/unnamed/part_002)                              *)
(*   combinable        (src/header/combinable.hpp)                         *)
(* Pointers are modelled as block/segment identifiers plus offsets, so     *)
(* that a cursor that leaves its own allocation is visible as such.        *)
(***************************************************************************)
EXTENDS Integers, Sequences, FiniteSets, TLC

VARIABLES
    q,          \* the concurrent_queue object (blocks, mQueue, mQueueCurrent, mQueueEnd)
    pushed,     \* history: values whose push() returned normally, in order
    popped,     \* history: values returned by successful try_pop(), in order
    lastPop,    \* outcome of the most recent try_pop: "none", "ok" or "empty"
    dest,       \* the caller's variable handed to try_pop
    qPeak,      \* the largest number of live elements the queue has held
    qphase,     \* scenario position of the queue tests: "produce" or "consume"
    prodPc,     \* producer thread -> "gen", "push" or "done"
    prodVal,    \* producer thread -> value obtained from the generator
    genCount,   \* ValueGenerator::count
    counter,    \* the test's atomic counter (pushes minus successful pops)
    consDone,   \* consumer thread -> its try_pop loop has ended
    consGot,    \* consumer thread -> it has popped at least one value
    mMutex,     \* concurrent_queue::mMutex: the thread that owns it (0 = unlocked)
    lpc,        \* calling thread -> the queue operation it is in, or "idle"
    lCur,       \* calling thread -> the local `queue` of Destroy_all_elements
    lCalls,     \* number of queue operations the calling threads have called
    lRet,       \* calling thread -> outcome of its latest queue operation
    qCopy,      \* the queue copy-constructed from q, with q as it was at that moment
    cHash,      \* thread -> std::hash<std::thread::id>{}(id) % Min_size
    mBuckets,   \* combinable::mBuckets: bucket index -> head Storage (0 = nullptr)
    nodes,      \* the Storage nodes allocated so far, by identifier
    cpc,        \* thread -> position inside local()
    cCur,       \* thread -> current_unit of Get_local_storage_unit
    cBucket,    \* thread -> bucket local of Add_local_storage_unit
    cUnit,      \* thread -> storage_unit of local() (0 = nullptr)
    cCalls,     \* thread -> number of local() calls that returned
    cRet,       \* thread -> the Storage its latest local() call returned
    cExists,    \* thread -> the flag `exists` of its latest local(bool&) call
    cFreed,     \* the Storage nodes deallocated by clear()
    vec,        \* the concurrent_vector object (segment chain, mCurrent, mEnd)
    vLastOp,    \* the most recent vector operation
    vArgs,      \* <<count, value>> of that operation (grow_by, multi-threaded push_back)
    vCalls,     \* thread -> number of push_back calls it has made
    vStart,     \* the elements the vector of the multi-threaded scenario started with
    vPc,        \* reset-and-regrow scenario: the number of statements executed
    vPushed,    \* reset-and-regrow scenario: the values appended, in call order
    vFirst      \* reset-and-regrow scenario: the local `first` read from v[0]

lvars == <<mMutex, lpc, lCur, lCalls, lRet, qCopy>>

qvars == <<q, pushed, popped, lastPop, dest, qPeak, qphase, prodPc, prodVal, genCount, counter,
           consDone, consGot, lvars>>

cvars == <<cHash, mBuckets, nodes, cpc, cCur, cBucket, cUnit, cCalls, cRet, cExists, cFreed>>

vvars == <<vec, vLastOp, vArgs, vCalls, vStart, vPc, vPushed, vFirst>>

vars == <<qvars, cvars, vvars>>

(***************************************************************************)
(* Bounds of the model and program constants.                              *)
(***************************************************************************)
\* width of size_type in the model (the build has 64)
SizeBits == 16
\* the allocator refuses requests for more than this many elements
MaxAlloc == 16
\* pushes per behaviour in the free push/try_pop histories
MaxPush == 26
\* pushes before the drain in the fill-then-drain scenario
MaxFill == 26
\* MAX_GEN_VALUE of the multi-producer scenario, scaled down
MaxGen == 10

\* Min_segment_size_eval for an element type of 32 bytes or more
Min_queue_size == 8

\* threads that use the combinable
NThreads == 2
\* local() calls per thread
MaxCalls == 2
MaxCtor == 2
MaxGrow == 2
MaxReserve == 4
MaxAssign == 2
MaxThreadPush == 3
MaxPrefill == 3
MaxCapacity == 16
MaxList == 3
MaxRegrow == 7
MaxRounds == 60
\* queue operations called in the scenarios with an explicit mutex
MaxQCalls == 4
\* pushes made before the calling threads start
MaxLockFill == 9
\* largest index handed to at() and operator[]
MaxIndex == 9

\* combinable::Min_size, Bucket_size_eval<ThreadCount>::value for the default
\* ThreadCount of 8 (8 > 8 / 8)
Min_size == 8

SizeMod == 2 ^ SizeBits

Max(a, b) == IF a >= b THEN a ELSE b

\* std::numeric_limits<size_type>::max()
max_size == SizeMod - 1

\* unsigned arithmetic of size_type
Wrap(n) == n % SizeMod

NullPtr == 0

Producers == {1, 2}
Consumers == {1, 2}

\* Outcomes of subtracting two pointers into different allocations
\* (Get_mini_queue_used_size on a block whose mCurrent was set to the next
\* block's mBegin): the distance between the two allocations, either sign.
CrossDiffs == {-20, 20}

\* Outcomes of a store one past the end of a block's storage.
OobOutcomes == {"continue", "crash"}

(***************************************************************************)
(* concurrent_queue                                                        *)
(***************************************************************************)
\* struct MiniQueue: offsets are relative to the block's mBegin; mCurrent
\* carries the block it points into, since the code can store another
\* block's mBegin in it.
NewMiniQueue(id, cap) ==
    [ mEnd       |-> cap,
      mUsedBegin |-> 0,
      mCurrent   |-> [blk |-> id, off |-> 0],
      mNextQueue |-> NullPtr,
      mElements  |-> [i \in 1..cap |-> 0] ]

EmptyQueue ==
    [ blocks        |-> << >>,
      mQueue        |-> NullPtr,
      mQueueCurrent |-> NullPtr,
      mQueueEnd     |-> NullPtr,
      fault         |-> FALSE,
      crashed       |-> FALSE ]

\* pointer comparison mCurrent == mEnd of block b
AtEnd(Q, b) ==
    /\ Q.blocks[b].mCurrent.blk = b
    /\ Q.blocks[b].mCurrent.off = Q.blocks[b].mEnd

\* pointer comparison mCurrent == mUsedBegin of block b
AtUsedBegin(Q, b) ==
    /\ Q.blocks[b].mCurrent.blk = b
    /\ Q.blocks[b].mCurrent.off = Q.blocks[b].mUsedBegin

\* Get_mini_queue_used_size: mCurrent - mUsedBegin; d is the outcome when the
\* two pointers belong to different allocations
Get_mini_queue_used_size(Q, b, d) ==
    IF Q.blocks[b].mCurrent.blk = b
    THEN Wrap(Q.blocks[b].mCurrent.off - Q.blocks[b].mUsedBegin)
    ELSE Wrap(d)

RECURSIVE SizeFrom(_, _, _, _)
SizeFrom(Q, b, d, fuel) ==
    IF b = NullPtr \/ fuel = 0 THEN 0
    ELSE Wrap(Get_mini_queue_used_size(Q, b, d)
              + SizeFrom(Q, Q.blocks[b].mNextQueue, d, fuel - 1))

\* unsafe_size(): walks the chain from mQueue
unsafe_size(Q, d) == SizeFrom(Q, Q.mQueue, d, Len(Q.blocks))

\* concurrent_queue::Calculate_new_capacity
Calculate_new_capacity_q(new_size) ==
    LET current_capacity == Wrap(new_size - 1)
        Size == Wrap(current_capacity + current_capacity \div 2)
    IN  IF current_capacity > max_size - current_capacity \div 2
        THEN Max(Min_queue_size, max_size)
        ELSE IF Size < new_size THEN Max(Min_queue_size, new_size)
        ELSE Max(Min_queue_size, Size)

\* capacity of the block Allocate_mini_queue asks the allocator for
NewBlockSize(requested_new_size, current_size) ==
    Max(Min_queue_size, Wrap(Calculate_new_capacity_q(requested_new_size) - current_size))

\* Emplace_back_mini_queue with a block of capacity cap just allocated
Emplace_back_mini_queue(Q, cap) ==
    LET id == Len(Q.blocks) + 1
        B1 == Append(Q.blocks, NewMiniQueue(id, cap))
    IN  IF Q.mQueue = NullPtr
        THEN [Q EXCEPT !.blocks = B1, !.mQueue = id, !.mQueueCurrent = id, !.mQueueEnd = id]
        ELSE LET B2 == [B1 EXCEPT ![Q.mQueueEnd].mNextQueue = id]
                 Q2 == [Q EXCEPT !.blocks = B2, !.mQueueEnd = id]
             IN  IF AtEnd(Q2, Q2.mQueueCurrent)
                 THEN [Q2 EXCEPT !.mQueueCurrent = Q2.blocks[Q2.mQueueCurrent].mNextQueue]
                 ELSE Q2

\* the size Internal_push passes to Allocate_mini_queue, or -1 when it
\* allocates nothing
PushRequest(Q, d) ==
    IF Q.mQueueEnd = Q.mQueueCurrent
    THEN IF Q.mQueue = NullPtr THEN 0
         ELSE IF AtEnd(Q, Q.mQueueCurrent) THEN unsafe_size(Q, d)
         ELSE -1
    ELSE -1

\* Internal_push throws (the allocator fails) and leaves the queue as it was
PushThrows(Q, d) ==
    /\ PushRequest(Q, d) >= 0
    /\ NewBlockSize(Wrap(PushRequest(Q, d) + 1), PushRequest(Q, d)) > MaxAlloc

\* Internal_push, lines 367-374: construct at mQueueCurrent->mCurrent, advance
PushStore(Q, x, oob) ==
    LET c  == Q.mQueueCurrent
        p  == Q.blocks[c].mCurrent
        inBounds == p.off < Q.blocks[p.blk].mEnd
        B1 == IF inBounds
              THEN [Q.blocks EXCEPT ![p.blk].mElements[p.off + 1] = x]
              ELSE Q.blocks
        B2 == [B1 EXCEPT ![c].mCurrent = [blk |-> p.blk, off |-> p.off + 1]]
        Q2 == [Q EXCEPT !.blocks = B2,
                        !.fault = Q.fault \/ ~inBounds,
                        !.crashed = ~inBounds /\ oob = "crash"]
    IN  IF AtEnd(Q2, c) /\ c # Q2.mQueueEnd
        THEN LET n == Q2.blocks[c].mNextQueue
             IN  [Q2 EXCEPT !.blocks[c].mCurrent = [blk |-> n, off |-> 0],
                            !.mQueueCurrent = n]
        ELSE Q2

\* Internal_push (the call that does not throw)
Internal_push(Q, x, d, oob) ==
    LET r  == PushRequest(Q, d)
        Q1 == IF r >= 0
              THEN Emplace_back_mini_queue(Q, NewBlockSize(Wrap(r + 1), r))
              ELSE Q
    IN  PushStore(Q1, x, oob)

\* empty() that compares mCurrent with the element after mUsedBegin: it
\* reports a head block holding one element as empty
empty_off_by_one(Q) ==
    \/ Q.mQueue = NullPtr
    \/ AtUsedBegin(Q, Q.mQueue)
    \/ /\ Q.blocks[Q.mQueue].mCurrent.blk = Q.mQueue
       /\ Q.blocks[Q.mQueue].mCurrent.off = Q.blocks[Q.mQueue].mUsedBegin + 1

\* the empty test of try_pop() and empty(): no block, or the head block's
\* mCurrent equals its mUsedBegin
empty(Q) ==
    \/ Q.mQueue = NullPtr
    \/ AtUsedBegin(Q, Q.mQueue)

\* Internal_Pop reading the newest element of the head block,
\* *(mQueue->mCurrent - 1), instead of the oldest
PopValue_newest(Q) ==
    LET h == Q.mQueue
        c == Q.blocks[h].mCurrent
        last == IF c.blk = h /\ c.off > 0 THEN c.off ELSE Q.blocks[h].mEnd
    IN  Q.blocks[h].mElements[last]

\* value read by Internal_Pop: *mQueue->mUsedBegin
PopValue(Q) == Q.blocks[Q.mQueue].mElements[Q.blocks[Q.mQueue].mUsedBegin + 1]

\* Internal_Pop that resets a drained head block but does not move it
\* behind mQueueEnd, so mQueue keeps pointing at the emptied block
Internal_Pop_no_recycle(Q) ==
    LET h  == Q.mQueue
        u  == Q.blocks[h].mUsedBegin
        B1 == [Q.blocks EXCEPT ![h].mElements[u + 1] = 0, ![h].mUsedBegin = u + 1]
    IN  IF u + 1 = Q.blocks[h].mEnd
        THEN [Q EXCEPT !.blocks = [B1 EXCEPT ![h].mUsedBegin = 0,
                                             ![h].mCurrent = [blk |-> h, off |-> 0]]]
        ELSE [Q EXCEPT !.blocks = B1]

\* Internal_Pop
\* Internal_Pop that rewinds mUsedBegin of a drained head block but not its
\* mCurrent
Internal_Pop_no_rewind(Q) ==
    LET h  == Q.mQueue
        u  == Q.blocks[h].mUsedBegin
        B1 == [Q.blocks EXCEPT ![h].mElements[u + 1] = 0, ![h].mUsedBegin = u + 1]
    IN  IF u + 1 = Q.blocks[h].mEnd
        THEN LET B2 == [B1 EXCEPT ![h].mUsedBegin = 0]
             IN  IF h # Q.mQueueEnd
                 THEN [Q EXCEPT !.blocks = [B2 EXCEPT ![Q.mQueueEnd].mNextQueue = h,
                                                      ![h].mNextQueue = NullPtr],
                                !.mQueueEnd = h,
                                !.mQueue = Q.blocks[h].mNextQueue]
                 ELSE [Q EXCEPT !.blocks = B2]
        ELSE [Q EXCEPT !.blocks = B1]

\* Internal_Pop that leaves the moved block's forward link in place
Internal_Pop_keeps_link(Q) ==
    LET h  == Q.mQueue
        u  == Q.blocks[h].mUsedBegin
        B1 == [Q.blocks EXCEPT ![h].mElements[u + 1] = 0, ![h].mUsedBegin = u + 1]
    IN  IF u + 1 = Q.blocks[h].mEnd
        THEN LET B2 == [B1 EXCEPT ![h].mUsedBegin = 0,
                                  ![h].mCurrent = [blk |-> h, off |-> 0]]
             IN  IF h # Q.mQueueEnd
                 THEN [Q EXCEPT !.blocks = [B2 EXCEPT ![Q.mQueueEnd].mNextQueue = h],
                                !.mQueueEnd = h,
                                !.mQueue = Q.blocks[h].mNextQueue]
                 ELSE [Q EXCEPT !.blocks = B2]
        ELSE [Q EXCEPT !.blocks = B1]

Internal_Pop(Q) ==
    LET h  == Q.mQueue
        u  == Q.blocks[h].mUsedBegin
        B1 == [Q.blocks EXCEPT ![h].mElements[u + 1] = 0, ![h].mUsedBegin = u + 1]
    IN  IF u + 1 = Q.blocks[h].mEnd
        THEN LET B2 == [B1 EXCEPT ![h].mUsedBegin = 0,
                                  ![h].mCurrent = [blk |-> h, off |-> 0]]
             IN  IF h # Q.mQueueEnd
                 THEN [Q EXCEPT !.blocks = [B2 EXCEPT ![Q.mQueueEnd].mNextQueue = h,
                                                      ![h].mNextQueue = NullPtr],
                                !.mQueueEnd = h,
                                !.mQueue = Q.blocks[h].mNextQueue]
                 ELSE [Q EXCEPT !.blocks = B2]
        ELSE [Q EXCEPT !.blocks = B1]

\* try_pop(): the queue afterwards
try_pop(Q) == IF empty(Q) THEN Q ELSE Internal_Pop(Q)

\* Type {}: the value-initialised element
DefaultElement == 0

\* try_pop that leaves dest alone when the queue is empty
try_pop_keeps_dest(Q, d) == IF empty(Q) THEN d ELSE PopValue(Q)

\* try_pop(dest): the value of dest afterwards; d is its value before
try_pop_dest(Q, d) == IF empty(Q) THEN DefaultElement ELSE PopValue(Q)

\* Destroy_all_elements, lines 499-501, for block b: destroy the elements of
\* [mUsedBegin, mCurrent) and rewind both cursors. When mCurrent lies outside
\* the block (past mEnd, or in another allocation that d places above it) the
\* destroy loop runs past the block's storage.
Destroy_block(Q, b, d, oob) ==
    LET blk      == Q.blocks[b]
        inBlock  == blk.mCurrent.blk = b
        overrun  == IF inBlock THEN blk.mCurrent.off > blk.mEnd ELSE d > 0
        last     == IF inBlock /\ ~overrun THEN blk.mCurrent.off
                    ELSE IF overrun THEN blk.mEnd
                    ELSE blk.mUsedBegin
        elems    == [i \in 1..blk.mEnd |->
                        IF i > blk.mUsedBegin /\ i <= last THEN 0
                        ELSE blk.mElements[i]]
    IN  [Q EXCEPT !.blocks[b].mElements = elems,
                  !.blocks[b].mCurrent = [blk |-> b, off |-> 0],
                  !.blocks[b].mUsedBegin = 0,
                  !.fault = Q.fault \/ overrun,
                  !.crashed = overrun /\ oob = "crash"]

RECURSIVE Destroy_from(_, _, _, _, _)
\* the while loop of Destroy_all_elements from block b on
Destroy_from(Q, b, d, oob, fuel) ==
    IF b = NullPtr \/ fuel = 0 \/ Q.crashed THEN Q
    ELSE Destroy_from(Destroy_block(Q, b, d, oob), Q.blocks[b].mNextQueue,
                      d, oob, fuel - 1)

\* clear(): Destroy_all_elements()
Destroy_all_elements(Q, d, oob) ==
    LET Q1 == Destroy_from(Q, Q.mQueue, d, oob, Len(Q.blocks))
    IN  IF Q1.crashed THEN Q1 ELSE [Q1 EXCEPT !.mQueueCurrent = Q1.mQueue]

(***************************************************************************)
(* concurrent_vector                                                       *)
(* The chain is kept in chain order: segs[1] is the embedded mSegment and  *)
(* segs[k + 1] is segs[k].mSegAfter (Append_new_segment links a new        *)
(* segment behind mCurrent and sets its mSegBefore to mCurrent, so the     *)
(* segments that were behind mCurrent leave the chain). mCurrent and mEnd  *)
(* are positions in the chain, 0 standing for nullptr. In a segment,       *)
(* mBegin tells whether storage is attached, mCurrent and mEnd are offsets *)
(* from mBegin. An element value 0 is storage that holds no constructed    *)
(* element.                                                                *)
(***************************************************************************)
\* Data_Segment {} as default-initialised (all pointers null)
NullSegment == [mBegin |-> FALSE, mCurrent |-> 0, mEnd |-> 0, elems |-> << >>]

\* a segment whose storage of n elements was just allocated
FreshSegment(n) ==
    [mBegin |-> TRUE, mCurrent |-> 0, mEnd |-> n, elems |-> [i \in 1..n |-> 0]]

\* no element location
NoRef == [seg |-> 0, off |-> 0]

\* concurrent_vector() : mSegment {}, mCurrent { &mSegment }, mEnd { &mSegment };
\* ret is the location of the reference the latest emplace_back returned
EmptyVector ==
    [ segs     |-> <<NullSegment>>,
      mCurrent |-> 1,
      mEnd     |-> 1,
      ret      |-> NoRef,
      exc      |-> "none",
      fault    |-> FALSE,
      crashed  |-> FALSE ]

\* a public member function is entered: nothing thrown or returned yet
Enter(V) == [V EXCEPT !.exc = "none", !.ret = NoRef]

\* a null pointer was dereferenced: the call does not return
Crash(V) == [V EXCEPT !.crashed = TRUE]

\* the call leaves by an exception
Throw(V, e) == [V EXCEPT !.exc = e]

\* mAllocator.allocate(n) fails
AllocFails(n) == n > MaxAlloc

RECURSIVE SizeWalk(_, _)
\* the do-while of Get_size from segment k on, and the addition after it
SizeWalk(V, k) ==
    V.segs[k].mCurrent
    + (IF k + 1 > Len(V.segs) THEN 0
       ELSE IF k + 1 = V.mCurrent THEN V.segs[k + 1].mCurrent
       ELSE SizeWalk(V, k + 1))

\* Get_size()
Get_size(V) == Wrap(SizeWalk(V, 1))

RECURSIVE CapWalk(_, _)
CapWalk(S, k) == IF k > Len(S) THEN 0 ELSE S[k].mEnd + CapWalk(S, k + 1)

\* Get_capacity()
Get_capacity(V) == Wrap(CapWalk(V.segs, 1))

RECURSIVE ResolveFrom(_, _, _)
\* the walk of Get_value_at / Get_segment_address from segment k on;
\* seg = 0 when the walk runs off the chain (target_segment becomes nullptr
\* and is dereferenced)
ResolveFrom(S, k, index) ==
    IF k > Len(S) THEN NoRef
    ELSE IF index < S[k].mEnd THEN [seg |-> k, off |-> index]
    ELSE ResolveFrom(S, k + 1, index - S[k].mEnd)

\* Get_value_at(index): the storage location index resolves to
Get_value_at(V, index) == ResolveFrom(V.segs, 1, index)

\* the element stored at index (0 when the location holds none)
ValueAt(V, index) ==
    LET loc == Get_value_at(V, index)
    IN  IF loc.seg = 0 THEN 0 ELSE V.segs[loc.seg].elems[loc.off + 1]

\* the elements at the indices 0 .. size() - 1
Contents(V) == [i \in 1..Get_size(V) |-> ValueAt(V, i - 1)]

\* for (it = begin(); it != end(); ++it) read *it: the values read, or
\* "crash" when an iterator below end() resolves to no storage
Iterate(V) ==
    IF \E i \in 0..(Get_size(V) - 1) : Get_value_at(V, i) = NoRef
    THEN "crash"
    ELSE [i \in 1..Get_size(V) |-> ValueAt(V, i - 1)]

\* allocator_traits::construct(mAllocator, unfancy_ptr(iterator at index), x)
ConstructAt(V, index, x) ==
    LET loc == Get_value_at(V, index)
    IN  IF loc.seg = 0 THEN Crash(V)
        ELSE [V EXCEPT !.segs[loc.seg].elems[loc.off + 1] = x]

RECURSIVE ConstructRange(_, _, _)
\* Fill_n / Copy_n through vector iterators: construct xs at index, index+1, ...
ConstructRange(V, index, xs) ==
    IF xs = << >> \/ V.crashed THEN V
    ELSE ConstructRange(ConstructAt(V, index, Head(xs)), index + 1, Tail(xs))

\* Destruct(first, last) through vector iterators
Destruct(V, first, last) ==
    ConstructRange(V, first, [i \in 1..(last - first) |-> 0])

RECURSIVE AdjustFrom(_, _, _)
\* the while loop of Adjust_segments_and_get_last_address_for from segment k
\* on, followed by the reset of the segments behind the target
AdjustFrom(S, k, index) ==
    IF k > Len(S) THEN [segs |-> S, target |-> 0]
    ELSE IF index < S[k].mEnd
         THEN [segs   |-> [j \in 1..Len(S) |->
                              IF j = k THEN [S[j] EXCEPT !.mCurrent = index]
                              ELSE IF j > k THEN [S[j] EXCEPT !.mCurrent = 0]
                              ELSE S[j]],
               target |-> k]
         ELSE AdjustFrom([S EXCEPT ![k].mCurrent = S[k].mEnd], k + 1, index - S[k].mEnd)

\* mCurrent = Adjust_segments_and_get_last_address_for(index)
Adjust_segments_and_get_last_address_for(V, index) ==
    LET r == AdjustFrom(V.segs, 1, index)
    IN  [V EXCEPT !.segs = r.segs, !.mCurrent = r.target]

\* Append_new_segment(seg_size)
Append_new_segment(V, seg_size) ==
    IF V.mCurrent = 1 /\ ~V.segs[1].mBegin
    THEN IF AllocFails(seg_size) THEN Throw(V, "bad_alloc")
         ELSE [V EXCEPT !.segs = <<FreshSegment(seg_size)>>]
    ELSE IF AllocFails(seg_size) THEN Throw(V, "bad_alloc")
    ELSE IF V.mCurrent = NullPtr THEN Crash(V)
    ELSE [V EXCEPT !.segs = Append(SubSeq(V.segs, 1, V.mCurrent), FreshSegment(seg_size)),
                   !.mEnd = V.mCurrent + 1]

\* concurrent_vector::Calculate_new_capacity: <<new capacity, current capacity>>
Calculate_new_capacity(V, new_size) ==
    LET current_capacity == Get_capacity(V)
        Size == Wrap(current_capacity + current_capacity \div 2)
    IN  IF current_capacity > max_size - current_capacity \div 2
        THEN <<max_size, current_capacity>>
        ELSE IF Size < new_size THEN <<new_size, current_capacity>>
        ELSE <<Size, current_capacity>>

\* Min_segment_size_eval for an element type of 32 bytes or more
Min_segment_size == 8

\* Calculate_new_segment_size
Calculate_new_segment_size(V, new_capacity) ==
    LET c == Calculate_new_capacity(V, new_capacity)
    IN  Max(Min_segment_size, Wrap(c[1] - c[2]))

\* the test of emplace_back and shrink_to_fit:
\* (mCurrent != mEnd) || (mCurrent->mCurrent != mCurrent->mEnd)
HasRoomTest(V) ==
    \/ V.mCurrent # V.mEnd
    \/ V.segs[V.mCurrent].mCurrent # V.segs[V.mCurrent].mEnd

\* emplace_back without line 547: the element is constructed but
\* mCurrent->mCurrent is not advanced
Emplace_at_no_advance(V, x) ==
    LET V1 == ConstructAt(V, Get_size(V), x)
    IN  IF V1.crashed THEN V1
        ELSE [V1 EXCEPT !.ret = Get_value_at(V, Get_size(V))]

\* emplace_back, lines 546-548: Emplace_at_without_reallocation(Get_size(), x)
\* and mCurrent->mCurrent++
Emplace_at_without_reallocation(V, x) ==
    LET V1 == ConstructAt(V, Get_size(V), x)
    IN  IF V1.crashed THEN V1
        ELSE IF V1.mCurrent = NullPtr THEN Crash(V1)
        ELSE [V1 EXCEPT !.segs[V1.mCurrent].mCurrent = @ + 1,
                        !.ret = Get_value_at(V, Get_size(V))]

\* growth as std::vector does it: the elements move into one new, larger
\* allocation and the old segments are released
Emplace_back_moving(V, x) ==
    LET n   == Get_size(V)
        cap == Calculate_new_capacity(V, Wrap(n + 1))[1]
        seg == [mBegin   |-> TRUE,
                mCurrent |-> n + 1,
                mEnd     |-> cap,
                elems    |-> [i \in 1..cap |->
                                 IF i <= n THEN ValueAt(V, i - 1)
                                 ELSE IF i = n + 1 THEN x ELSE 0]]
    IN  IF AllocFails(cap) THEN Throw(V, "bad_alloc")
        ELSE [V EXCEPT !.segs = <<seg>>, !.mCurrent = 1, !.mEnd = 1,
                       !.ret = [seg |-> 1, off |-> n]]

\* Emplace_back_with_reallocation
Emplace_back_with_reallocation(V, x) ==
    LET current_size == Get_size(V)
        V1 == Append_new_segment(V, Calculate_new_segment_size(V, Wrap(current_size + 1)))
        V2 == IF current_size # 0 THEN [V1 EXCEPT !.mCurrent = V1.mCurrent + 1] ELSE V1
        c  == V2.mCurrent
        at == V2.segs[c].mCurrent
        ok == at < V2.segs[c].mEnd
        V3 == [V2 EXCEPT !.segs[c].elems = IF ok THEN [@ EXCEPT ![at + 1] = x] ELSE @,
                         !.segs[c].mCurrent = at + 1,
                         !.fault = V2.fault \/ ~ok]
    IN  IF current_size = max_size THEN Throw(V, "length_error")
        ELSE IF V1.exc # "none" \/ V1.crashed THEN V1
        ELSE IF Get_value_at(V3, Get_size(V3) - 1).seg = 0 THEN Crash(V3)
        ELSE [V3 EXCEPT !.ret = Get_value_at(V3, Get_size(V3) - 1)]

\* emplace_back(x) / push_back(x)
emplace_back(V, x) ==
    LET V0 == Enter(V)
    IN  IF HasRoomTest(V0)
        THEN Emplace_at_without_reallocation(V0, x)
        ELSE Emplace_back_with_reallocation(V0, x)

\* grow_by(count, value)
grow_by(V, count, value) ==
    LET V0 == Enter(V)
        new_size == Wrap(Get_size(V0) + count)
        V1 == IF new_size > Get_capacity(V0)
              THEN Append_new_segment(V0, Calculate_new_segment_size(V0, new_size))
              ELSE V0
        V2 == ConstructRange(V1, Get_size(V1), [i \in 1..count |-> value])
    IN  IF V1.exc # "none" \/ V1.crashed THEN V1
        ELSE IF V2.crashed THEN V2
        ELSE Adjust_segments_and_get_last_address_for(V2, new_size)

\* reserve(new_cap)
reserve(V, new_cap) ==
    LET V0 == Enter(V)
    IN  IF new_cap > Get_capacity(V0) THEN Append_new_segment(V0, new_cap) ELSE V0

\* at() without the test of Get_size(): what operator[] does
at_unchecked(V, pos) ==
    IF ResolveFrom(V.segs, 1, pos) = NoRef THEN [V EXCEPT !.exc = "none", !.ret = NoRef, !.crashed = TRUE]
    ELSE [V EXCEPT !.exc = "none", !.ret = ResolveFrom(V.segs, 1, pos)]

\* at(pos)
at(V, pos) ==
    LET V0 == Enter(V)
    IN  IF Get_size(V0) <= pos THEN Throw(V0, "out_of_range")
        ELSE IF Get_value_at(V0, pos) = NoRef THEN Crash(V0)
        ELSE [V0 EXCEPT !.ret = Get_value_at(V0, pos)]

\* operator[](pos)
subscript(V, pos) ==
    LET V0 == Enter(V)
    IN  IF Get_value_at(V0, pos) = NoRef THEN Crash(V0)
        ELSE [V0 EXCEPT !.ret = Get_value_at(V0, pos)]

\* a clear() that hands the storage back, as Finalise_no_lock does
clear_releasing(V) ==
    [Enter(V) EXCEPT !.segs = <<NullSegment>>, !.mCurrent = 1, !.mEnd = 1]

\* concurrent_vector::empty(): mSegment.mBegin == mSegment.mCurrent
vector_empty(V) == V.segs[1].mCurrent = 0

\* clear()
clear(V) ==
    LET V0 == Enter(V)
        V1 == Destruct(V0, 0, Get_size(V0))
    IN  IF V1.crashed THEN V1
        ELSE Adjust_segments_and_get_last_address_for(V1, 0)

\* Finalise_no_lock(): every segment of the chain is released
Finalise_no_lock(V) ==
    [V EXCEPT !.segs = <<NullSegment>>, !.mCurrent = 1, !.mEnd = 1]

\* Reallocate_to_fit_n whose new allocation is one element short
Reallocate_one_short(V, new_cap, nonNull) ==
    LET data_size == Get_size(V)
        cap == IF new_cap > 0 THEN new_cap - 1 ELSE 0
        seg == [mBegin   |-> (cap > 0 \/ nonNull),
                mCurrent |-> data_size,
                mEnd     |-> cap,
                elems    |-> [i \in 1..cap |-> ValueAt(V, i - 1)]]
    IN  IF AllocFails(cap) THEN Throw(V, "bad_alloc")
        ELSE [V EXCEPT !.segs = <<seg>>, !.mCurrent = 1, !.mEnd = 1]

\* Reallocate_to_fit_n(new_cap) with Exchange_data; nonNull is whether
\* allocate(0) returns a non-null pointer
Reallocate_to_fit_n(V, new_cap, nonNull) ==
    LET data_size == Get_size(V)
        moved == [i \in 1..new_cap |-> ValueAt(V, i - 1)]
        crash == \E i \in 0..(data_size - 1) : Get_value_at(V, i).seg = 0
        seg   == [mBegin   |-> (new_cap > 0 \/ nonNull),
                  mCurrent |-> data_size,
                  mEnd     |-> new_cap,
                  elems    |-> moved]
    IN  IF AllocFails(new_cap) THEN Throw(V, "bad_alloc")
        ELSE IF crash THEN Crash(V)
        ELSE [Finalise_no_lock(V) EXCEPT !.segs = <<seg>>]

\* shrink_to_fit without the test mSegment.mBegin == mSegment.mCurrent: it
\* releases everything whenever mCurrent is the embedded segment
shrink_to_fit_always_finalise(V, nonNull) ==
    IF HasRoomTest(Enter(V))
    THEN IF V.mCurrent = 1
         THEN Finalise_no_lock(Enter(V))
         ELSE Reallocate_to_fit_n(Enter(V), Get_size(V), nonNull)
    ELSE Enter(V)

\* shrink_to_fit()
shrink_to_fit(V, nonNull) ==
    LET V0 == Enter(V)
    IN  IF HasRoomTest(V0)
        THEN IF V0.mCurrent = 1 /\ V0.segs[1].mCurrent = 0
             THEN Finalise_no_lock(V0)
             ELSE Reallocate_to_fit_n(V0, Get_size(V0), nonNull)
        ELSE V0

\* Allocate_new_n(new_cap)
Allocate_new_n(V, new_cap) ==
    IF AllocFails(new_cap) THEN Throw(V, "bad_alloc")
    ELSE [V EXCEPT !.segs = <<FreshSegment(new_cap)>>, !.mCurrent = 1, !.mEnd = 1]

\* Deallocate_then_allocate(new_size); Finaliser_If_Failed finalises the
\* vector when Allocate_new_n throws
Deallocate_then_allocate(V, new_size) ==
    LET new_cap == Calculate_new_capacity(V, new_size)[1]
    IN  IF new_size > max_size THEN Throw(V, "length_error")
        ELSE Allocate_new_n(Finalise_no_lock(V), new_cap)

\* Assign_range whose shrinking branch leaves the cursor at the old size
Assign_range_keep_size(V, xs) ==
    LET V0 == Enter(V)
        current_size == Get_size(V0)
        new_size == Len(xs)
        V1 == IF new_size > Get_capacity(V0)
              THEN Deallocate_then_allocate(V0, new_size)
              ELSE V0
        V2 == ConstructRange(V1, 0, xs)
        V3 == ConstructRange(V0, 0, xs)
    IN  IF new_size > current_size
        THEN IF V1.exc # "none" THEN V1
             ELSE IF V2.crashed THEN V2
             ELSE Adjust_segments_and_get_last_address_for(V2, new_size)
        ELSE IF V3.crashed THEN V3
             ELSE Adjust_segments_and_get_last_address_for(V3, current_size)

\* Assign_range(first, last, std::forward_iterator_tag) for the list xs
Assign_range(V, xs) ==
    LET V0 == Enter(V)
        current_size == Get_size(V0)
        new_size == Len(xs)
        V1 == IF new_size > Get_capacity(V0)
              THEN Deallocate_then_allocate(V0, new_size)
              ELSE V0
        V2 == ConstructRange(V1, 0, xs)
        V3 == ConstructRange(V0, 0, xs)
        V4 == Destruct(V3, new_size, current_size)
    IN  IF new_size > current_size
        THEN IF V1.exc # "none" THEN V1
             ELSE IF V2.crashed THEN V2
             ELSE Adjust_segments_and_get_last_address_for(V2, new_size)
        ELSE IF V4.crashed THEN V4
             ELSE Adjust_segments_and_get_last_address_for(V4, new_size)

\* concurrent_vector(std::initializer_list): Construct_range -> Do_in_place_n
Do_in_place_n(xs) ==
    IF Len(xs) = 0 THEN EmptyVector
    ELSE LET V1 == Allocate_new_n(EmptyVector, Len(xs))
         IN  [V1 EXCEPT !.segs[1].elems = xs, !.segs[1].mCurrent = Len(xs)]

\* the list of n copies of x
Repeat(n, x) == [i \in 1..n |-> x]

VThreads == 1..NThreads

\* the vector variables when the object under test is V, just constructed
IdleV(V, start) ==
    /\ vec = V
    /\ vLastOp = "ctor"
    /\ vArgs = <<0, 0>>
    /\ vCalls = [t \in VThreads |-> 0]
    /\ vStart = start
    /\ vPc = 0
    /\ vPushed = << >>
    /\ vFirst = 0

(***************************************************************************)
(* Queue scenarios                                                         *)
(***************************************************************************)
CThreads == 1..NThreads

\* the combinable right after its constructor (mBuckets.fill(nullptr)), before
\* any thread has called local(); h is the bucket each thread hashes to
IdleC(h) ==
    /\ cHash = h
    /\ mBuckets = [b \in 0..(Min_size - 1) |-> NullPtr]
    /\ nodes = << >>
    /\ cpc = [t \in CThreads |-> "idle"]
    /\ cCur = [t \in CThreads |-> NullPtr]
    /\ cBucket = [t \in CThreads |-> NullPtr]
    /\ cUnit = [t \in CThreads |-> NullPtr]
    /\ cCalls = [t \in CThreads |-> 0]
    /\ cRet = [t \in CThreads |-> NullPtr]
    /\ cExists = [t \in CThreads |-> FALSE]
    /\ cFreed = {}

\* no copy of the queue has been constructed
NoCopy == [made |-> FALSE, src |-> EmptyQueue, obj |-> EmptyQueue]

\* the threads that call the queue's public operations
Callers == 1..NThreads

\* Value v;  a variable that has been given no value yet
Unset == -1

\* the queue right after  concurrent_queue a {}  and the tests' locals
IdleQ ==
    /\ q = EmptyQueue
    /\ pushed = << >>
    /\ popped = << >>
    /\ lastPop = "none"
    /\ dest = Unset
    /\ qPeak = 0
    /\ qphase = "produce"
    /\ prodPc = [t \in Producers |-> "gen"]
    /\ prodVal = [t \in Producers |-> 0]
    /\ genCount = 0
    /\ counter = 0
    /\ consDone = [t \in Consumers |-> FALSE]
    /\ consGot = [t \in Consumers |-> FALSE]
    /\ mMutex = 0
    /\ lpc = [t \in Callers |-> "idle"]
    /\ lCur = [t \in Callers |-> NullPtr]
    /\ lCalls = 0
    /\ lRet = [t \in Callers |-> "none"]
    /\ qCopy = NoCopy

InitQ ==
    /\ IdleQ
    /\ IdleC([t \in CThreads |-> 0])
    /\ IdleV(EmptyVector, << >>)

\* push(x) under the queue's mutex: one atomic step
DoPush(x) ==
    /\ ~q.crashed
    /\ UNCHANGED <<cvars, vvars, dest, lvars>>
    /\ \E d \in CrossDiffs, oob \in OobOutcomes :
          IF PushThrows(q, d)
          THEN UNCHANGED <<q, pushed>>
          ELSE /\ q' = Internal_push(q, x, d, oob)
               /\ pushed' = IF q'.crashed THEN pushed ELSE Append(pushed, x)
    /\ qPeak' = Max(qPeak, Len(pushed') - Len(popped))

\* try_pop(v) under the queue's mutex: one atomic step
DoTryPop ==
    /\ ~q.crashed
    /\ UNCHANGED <<cvars, vvars, lvars>>
    /\ q' = try_pop(q)
    /\ dest' = try_pop_dest(q, dest)
    /\ UNCHANGED qPeak
    /\ IF empty(q)
       THEN /\ lastPop' = "empty"
            /\ UNCHANGED popped
       ELSE /\ lastPop' = "ok"
            /\ popped' = Append(popped, PopValue(q))

\* free history: the n-th push carries the value n
Push ==
    /\ genCount < MaxPush
    /\ genCount' = genCount + 1
    /\ DoPush(genCount + 1)
    /\ lastPop' = "none"
    /\ UNCHANGED <<popped, qphase, prodPc, prodVal, counter, consDone, consGot>>

TryPop ==
    /\ DoTryPop
    /\ UNCHANGED <<pushed, qphase, prodPc, prodVal, genCount, counter, consDone, consGot>>

NextQ == Push \/ TryPop

SpecQ == InitQ /\ [][NextQ]_vars

\* test_push_try_pop2: one thread pushes, then two threads drain.
Fill ==
    /\ qphase = "produce"
    /\ genCount < MaxFill
    /\ genCount' = genCount + 1
    /\ DoPush(genCount + 1)
    /\ UNCHANGED <<popped, lastPop, qphase, prodPc, prodVal, counter, consDone, consGot>>

\* the pushing loop ends and the two std::async drains are launched
StartDrain ==
    /\ qphase = "produce"
    /\ UNCHANGED <<cvars, vvars>>
    /\ qphase' = "consume"
    /\ UNCHANGED <<q, pushed, popped, lastPop, dest, qPeak, prodPc, prodVal, genCount, counter,
                   consDone, consGot, lvars>>

\* one iteration of  while (a.try_pop(v)) {}  in thread t
Drain(t) ==
    /\ qphase = "consume"
    /\ ~consDone[t]
    /\ DoTryPop
    /\ consDone' = [consDone EXCEPT ![t] = empty(q)]
    /\ consGot' = [consGot EXCEPT ![t] = consGot[t] \/ ~empty(q)]
    /\ UNCHANGED <<pushed, qphase, prodPc, prodVal, genCount, counter>>

NextQFill == Fill \/ StartDrain \/ (\E t \in Consumers : Drain(t))

SpecQFill == InitQ /\ [][NextQFill]_vars

\* test_push_try_pop_multithread: gen_push of producer t, the generator call
\* (values are count + 1, so that 0 stays the mark of an unconstructed slot)
Gen(t) ==
    /\ qphase = "produce"
    /\ prodPc[t] = "gen"
    /\ UNCHANGED <<cvars, vvars>>
    /\ IF genCount = MaxGen
       THEN /\ prodPc' = [prodPc EXCEPT ![t] = "done"]
            /\ UNCHANGED <<prodVal, genCount>>
       ELSE /\ prodPc' = [prodPc EXCEPT ![t] = "push"]
            /\ prodVal' = [prodVal EXCEPT ![t] = genCount + 1]
            /\ genCount' = genCount + 1
    /\ UNCHANGED <<q, pushed, popped, lastPop, dest, qPeak, qphase, counter, consDone, consGot,
                   lvars>>

\* a.push(value); counter++
ProdPush(t) ==
    /\ qphase = "produce"
    /\ prodPc[t] = "push"
    /\ DoPush(prodVal[t])
    /\ counter' = IF pushed' = pushed THEN counter ELSE counter + 1
    /\ prodPc' = [prodPc EXCEPT ![t] = IF pushed' = pushed THEN "done" ELSE "gen"]
    /\ UNCHANGED <<popped, lastPop, qphase, prodVal, genCount, consDone, consGot>>

\* every push future has been waited for; the pop futures are launched
StartConsume ==
    /\ qphase = "produce"
    /\ UNCHANGED <<cvars, vvars>>
    /\ \A t \in Producers : prodPc[t] = "done"
    /\ qphase' = "consume"
    /\ UNCHANGED <<q, pushed, popped, lastPop, dest, qPeak, prodPc, prodVal, genCount, counter,
                   consDone, consGot, lvars>>

\* one iteration of the pop lambda (gen.isEnough() is true by now)
Consume(t) ==
    /\ qphase = "consume"
    /\ ~consDone[t]
    /\ DoTryPop
    /\ counter' = IF empty(q) THEN counter ELSE counter - 1
    /\ consDone' = [consDone EXCEPT ![t] = empty(q)]
    /\ consGot' = [consGot EXCEPT ![t] = consGot[t] \/ ~empty(q)]
    /\ UNCHANGED <<pushed, qphase, prodPc, prodVal, genCount>>

NextQMulti ==
    \/ \E t \in Producers : Gen(t)
    \/ \E t \in Producers : ProdPush(t)
    \/ StartConsume
    \/ \E t \in Consumers : Consume(t)

SpecQMulti == InitQ /\ [][NextQMulti]_vars

\* test_push_try_pop: a.push(Value { i }) of round i (the model pushes i + 1,
\* 0 being the mark of an unconstructed slot)
RoundPush ==
    /\ qphase = "produce"
    /\ genCount < MaxRounds
    /\ genCount' = genCount + 1
    /\ DoPush(genCount + 1)
    /\ qphase' = "consume"
    /\ UNCHANGED <<popped, lastPop, prodPc, prodVal, counter, consDone, consGot>>

\* test_push_try_pop: Value v; a.try_pop(v) of the same round
RoundPop ==
    /\ qphase = "consume"
    /\ DoTryPop
    /\ qphase' = "produce"
    /\ UNCHANGED <<pushed, prodPc, prodVal, genCount, counter, consDone, consGot>>

NextQRounds == RoundPush \/ RoundPop

SpecQRounds == InitQ /\ [][NextQRounds]_vars

\* a.clear() by the only thread using the queue; the histories of pushed and
\* popped values start afresh
ClearQ ==
    /\ ~q.crashed
    /\ \E d \in CrossDiffs, oob \in OobOutcomes :
          q' = Destroy_all_elements(q, d, oob)
    /\ pushed' = << >>
    /\ popped' = << >>
    /\ lastPop' = "clear"
    /\ qphase' = "cleared"
    /\ UNCHANGED <<dest, qPeak, prodPc, prodVal, genCount, counter, consDone, consGot, lvars>>
    /\ UNCHANGED <<cvars, vvars>>

NextQClear == Push \/ TryPop \/ ClearQ

SpecQClear == InitQ /\ [][NextQClear]_vars

\* the public operations whose body starts with  std::scoped_lock Guard { mMutex }
LockingOps == {"push", "try_pop", "empty"}

QueueOps == LockingOps \cup {"clear"}

\* the locals of the queue tests, which the calling threads leave alone
TestLocalsUnchanged ==
    UNCHANGED <<pushed, popped, lastPop, qPeak, prodPc, prodVal, genCount, counter, consDone,
                consGot>>

\* concurrent_queue(const concurrent_queue &queue, allocator): the body is
\* empty, the members keep their default initialisers
Copy_construct(Q) == EmptyQueue

RECURSIVE Drained(_)
\* the values a run of try_pop calls takes out of Q until it reports empty
Drained(Q) ==
    IF empty(Q) \/ Q.crashed THEN << >>
    ELSE <<PopValue(Q)>> \o Drained(try_pop(Q))

\* concurrent_queue b { a };  the scenario ends with the copy
CopyQ ==
    /\ ~qCopy.made
    /\ ~q.crashed
    /\ qCopy' = [made |-> TRUE, src |-> q, obj |-> Copy_construct(q)]
    /\ TestLocalsUnchanged
    /\ UNCHANGED <<q, dest, qphase, mMutex, lpc, lCur, lCalls, lRet, cvars, vvars>>

NextQCopy ==
    \/ ~qCopy.made /\ (Push \/ TryPop)
    \/ CopyQ

SpecQCopy == InitQ /\ [][NextQCopy]_vars

\* the queue is filled by one thread before the calling threads start
LockFill ==
    /\ qphase = "produce"
    /\ genCount < MaxLockFill
    /\ genCount' = genCount + 1
    /\ DoPush(genCount + 1)
    /\ lastPop' = "none"
    /\ UNCHANGED <<popped, qphase, prodPc, prodVal, counter, consDone, consGot>>

\* the calling threads are launched
StartCallers ==
    /\ qphase = "produce"
    /\ qphase' = "callers"
    /\ TestLocalsUnchanged
    /\ UNCHANGED <<q, dest, lvars, cvars, vvars>>

\* thread t enters operation op. clear() has no guard: it is in
\* Destroy_all_elements at once, which reads mQueue into its local `queue`
Call(t, op) ==
    /\ qphase = "callers"
    /\ ~q.crashed
    /\ lpc[t] = "idle"
    /\ lCalls < MaxQCalls
    /\ lpc' = [lpc EXCEPT ![t] = op]
    /\ lCalls' = lCalls + 1
    /\ lRet' = [lRet EXCEPT ![t] = "none"]
    /\ lCur' = [lCur EXCEPT ![t] = IF op = "clear" THEN q.mQueue ELSE NullPtr]
    /\ TestLocalsUnchanged
    /\ UNCHANGED <<q, dest, qphase, mMutex, qCopy, cvars, vvars>>

\* std::scoped_lock Guard { mMutex }  of push, try_pop and empty
Acquire(t) ==
    /\ lpc[t] \in LockingOps
    /\ mMutex = 0
    /\ mMutex' = t
    /\ TestLocalsUnchanged
    /\ UNCHANGED <<q, dest, qphase, lpc, lCur, lCalls, lRet, qCopy, cvars, vvars>>

\* a guard that is not released when the operation returns
Unlock_keeps_mutex(t, ret) ==
    /\ mMutex' = mMutex
    /\ lpc' = [lpc EXCEPT ![t] = "idle"]
    /\ lRet' = [lRet EXCEPT ![t] = ret]
    /\ UNCHANGED <<pushed, popped, lastPop, qPeak, prodPc, prodVal, genCount, counter, consDone,
                   consGot>>
    /\ UNCHANGED <<qphase, lCur, lCalls, qCopy, cvars, vvars>>

\* leaving the guarded block, by return or by exception: ~scoped_lock
Unlock(t, ret) ==
    /\ mMutex' = 0
    /\ lpc' = [lpc EXCEPT ![t] = "idle"]
    /\ lRet' = [lRet EXCEPT ![t] = ret]
    /\ TestLocalsUnchanged
    /\ UNCHANGED <<qphase, lCur, lCalls, qCopy, cvars, vvars>>

\* push(value) of thread t with the mutex held; the allocator may fail
\* whenever Internal_push asks it for a block
PushBody(t) ==
    /\ lpc[t] = "push"
    /\ mMutex = t
    /\ ~q.crashed
    /\ UNCHANGED dest
    /\ \E d \in CrossDiffs, oob \in OobOutcomes, bad_alloc \in BOOLEAN :
          IF PushRequest(q, d) >= 0 /\ (bad_alloc \/ PushThrows(q, d))
          THEN /\ UNCHANGED q
               /\ Unlock(t, "throw")
          ELSE /\ q' = Internal_push(q, MaxLockFill + t, d, oob)
               /\ Unlock(t, "ok")

\* try_pop(dest) of thread t with the mutex held
TryPopBody(t) ==
    /\ lpc[t] = "try_pop"
    /\ mMutex = t
    /\ ~q.crashed
    /\ q' = try_pop(q)
    /\ dest' = try_pop_dest(q, dest)
    /\ Unlock(t, IF empty(q) THEN "false" ELSE "true")

\* empty() of thread t with the mutex held
EmptyBody(t) ==
    /\ lpc[t] = "empty"
    /\ mMutex = t
    /\ ~q.crashed
    /\ UNCHANGED <<q, dest>>
    /\ Unlock(t, IF empty(q) THEN "true" ELSE "false")

\* Destroy_all_elements of thread t: one iteration of its while loop, or the
\* final  mQueueCurrent = mQueue
ClearWalk(t) ==
    /\ lpc[t] = "clear"
    /\ ~q.crashed
    /\ IF lCur[t] = NullPtr
       THEN /\ q' = [q EXCEPT !.mQueueCurrent = q.mQueue]
            /\ lpc' = [lpc EXCEPT ![t] = "idle"]
            /\ lRet' = [lRet EXCEPT ![t] = "ok"]
            /\ UNCHANGED lCur
       ELSE /\ \E d \in CrossDiffs, oob \in OobOutcomes :
                  q' = Destroy_block(q, lCur[t], d, oob)
            /\ lCur' = [lCur EXCEPT ![t] = q.blocks[lCur[t]].mNextQueue]
            /\ UNCHANGED <<lpc, lRet>>
    /\ TestLocalsUnchanged
    /\ UNCHANGED <<dest, qphase, mMutex, lCalls, qCopy, cvars, vvars>>

NextQLock ==
    \/ LockFill
    \/ StartCallers
    \/ \E t \in Callers, op \in QueueOps : Call(t, op)
    \/ \E t \in Callers : Acquire(t)
    \/ \E t \in Callers : PushBody(t)
    \/ \E t \in Callers : TryPopBody(t)
    \/ \E t \in Callers : EmptyBody(t)
    \/ \E t \in Callers : ClearWalk(t)

SpecQLock == InitQ /\ [][NextQLock]_vars

\* threads that call push, try_pop and empty only
NextQCalls ==
    \/ StartCallers
    \/ \E t \in Callers, op \in LockingOps : Call(t, op)
    \/ \E t \in Callers : Acquire(t)
    \/ \E t \in Callers : PushBody(t)
    \/ \E t \in Callers : TryPopBody(t)
    \/ \E t \in Callers : EmptyBody(t)

SpecQCalls == InitQ /\ [][NextQCalls]_vars

\* fair scheduling: a thread that holds the mutex keeps running, and a thread
\* waiting for a mutex that is free again and again gets it
FairSpecQCalls ==
    /\ SpecQCalls
    /\ \A t \in Callers :
          /\ SF_vars(Acquire(t))
          /\ WF_vars(PushBody(t))
          /\ WF_vars(TryPopBody(t))
          /\ WF_vars(EmptyBody(t))

IsPrefix(s, t) == Len(s) <= Len(t) /\ SubSeq(t, 1, Len(s)) = s

\* C1: in every sequential history of push and try_pop the i-th successful
\* try_pop returns the i-th pushed value, and once try_pop reports the queue
\* empty every pushed value has been returned (none lost, duplicated or
\* reordered).
C1_FifoAnyHistory ==
    /\ IsPrefix(popped, pushed)
    /\ (lastPop = "empty" => popped = pushed)


NoDuplicates(s) == \A i, j \in 1..Len(s) : i # j => s[i] # s[j]

AllConsumersDone == \A t \in Consumers : consDone[t]

\* C2: after n pushes with no pop in between (n may exceed one block), the
\* try_pop calls yield the pushed values in order, none of them fails before
\* all n values are out, and the try_pop after the n-th fails.
C2_FifoAfterFill ==
    qphase = "consume" =>
        /\ IsPrefix(popped, pushed)
        /\ (lastPop = "empty" => popped = pushed)
        /\ (popped = pushed => empty(q))

C2_Witness ==
    /\ qphase = "consume"
    /\ lastPop = "empty"
    /\ Len(q.blocks) >= 3
    /\ Len(popped) = MaxFill
    /\ \E b \in 1..Len(q.blocks) : q.blocks[b].mEnd > Min_queue_size

\* C7: when two threads drain a filled queue concurrently until each sees a
\* failure, the successful pops number exactly the pushes, no value comes
\* out twice, and empty() is true afterwards.
C7_ConcurrentDrain ==
    AllConsumersDone =>
        /\ Len(popped) = Len(pushed)
        /\ NoDuplicates(popped)
        /\ empty(q)

C7_Witness ==
    /\ AllConsumersDone
    /\ \A t \in Consumers : consGot[t]
    /\ Len(pushed) > 2 * Min_queue_size

\* C8: several producers push N values concurrently; after they finished,
\* several consumers pop until failure: pushes minus pops is 0, the pops
\* number N, and empty() is true.
C8_ProducersThenConsumers ==
    (qphase = "consume" /\ AllConsumersDone) =>
        /\ counter = 0
        /\ Len(popped) = genCount
        /\ genCount = MaxGen
        /\ empty(q)

C8_Witness ==
    /\ qphase = "consume"
    /\ AllConsumersDone
    /\ \A t \in Consumers : consGot[t]
    /\ Len(q.blocks) >= 2
    /\ \E i \in 1..(Len(pushed) - 1) : pushed[i] > pushed[i + 1]

(***************************************************************************)
(* combinable                                                              *)
(***************************************************************************)
RECURSIVE ChainFrom(_, _, _)
\* the nodes met by following nextStorage from node n (fuel bounds the walk)
ChainFrom(N, n, fuel) ==
    IF n = NullPtr \/ fuel = 0 THEN << >>
    ELSE <<n>> \o ChainFrom(N, N[n].nextStorage, fuel - 1)

\* the chain of bucket b, head first
BucketChain(b) == ChainFrom(nodes, mBuckets[b], Len(nodes))

InChain(n, b) == \E i \in 1..Len(BucketChain(b)) : BucketChain(b)[i] = n

\* value_type {} for the arithmetic value type of the scenarios
DefaultValue == 0

RECURSIVE ChainsFrom(_, _, _)
\* the entries met by walking the chains of the buckets index .. Min_size - 1
\* in index order, each chain from its head
ChainsFrom(B, N, index) ==
    IF index >= Min_size THEN << >>
    ELSE ChainFrom(N, B[index], Len(N)) \o ChainsFrom(B, N, index + 1)

RECURSIVE FirstInitialised(_, _)
\* combine, lines 56-62: the value of starting_index after the search for the
\* first initialised bucket from bucket number index on (it is incremented
\* before the bucket is tested)
FirstInitialised(B, index) ==
    IF index >= Min_size THEN Min_size
    ELSE IF B[index] # NullPtr THEN index + 1
    ELSE FirstInitialised(B, index + 1)

\* combine that does not step starting_index past the bucket it found
CombineVisits_restart(B, N) ==
    LET starting_index == FirstInitialised(B, 0)
    IN  IF \A b \in 0..(Min_size - 1) : B[b] = NullPtr THEN << >>
        ELSE ChainFrom(N, B[starting_index - 1], Len(N))
                 \o ChainsFrom(B, N, starting_index - 1)

\* combine, lines 53-81: the entries whose mValue is read, in the order read
CombineVisits(B, N) ==
    LET starting_index == FirstInitialised(B, 0)
    IN  IF \A b \in 0..(Min_size - 1) : B[b] = NullPtr THEN << >>
        ELSE ChainFrom(N, B[starting_index - 1], Len(N))
                 \o ChainsFrom(B, N, starting_index)

\* func(a, b) for the functors handed to combine: the sum, and a functor
\* that is neither commutative nor associative
Invoke(func, a, b) == IF func = "sum" THEN a + b ELSE 10 * a + b

RECURSIVE FoldFrom(_, _, _, _)
\* result = func(result, starting_storage->mValue) for the entries of
\* visits in turn
FoldFrom(func, result, N, visits) ==
    IF visits = << >> THEN result
    ELSE FoldFrom(func, Invoke(func, result, N[Head(visits)].mValue), N, Tail(visits))

\* combine(func)
combine(func, B, N) ==
    LET visits == CombineVisits(B, N)
    IN  IF visits = << >> THEN DefaultValue
        ELSE FoldFrom(func, N[Head(visits)].mValue, N, Tail(visits))

\* combine_each(func): the entries func is invoked on, in order
combine_each(B, N) == ChainsFrom(B, N, 0)

\* the functor of the sum scenario
Sum == "sum"

\* local(), lines 98-99 and 143-145: hash the thread id, read the bucket head
Lookup(t) ==
    /\ cpc[t] = "idle"
    /\ cCalls[t] < MaxCalls
    /\ cCur' = [cCur EXCEPT ![t] = mBuckets[cHash[t]]]
    /\ cUnit' = [cUnit EXCEPT ![t] = NullPtr]
    /\ cpc' = [cpc EXCEPT ![t] = "walk"]
    /\ UNCHANGED <<cHash, mBuckets, nodes, cBucket, cCalls, cRet, cExists, cFreed>>
    /\ UNCHANGED <<qvars, vvars>>

\* Get_local_storage_unit, line 147: while (current_unit)
WalkTest(t) ==
    /\ cpc[t] = "walk"
    /\ cpc' = [cpc EXCEPT ![t] = IF cCur[t] = NullPtr THEN "add" ELSE "cmp"]
    /\ UNCHANGED <<cHash, mBuckets, nodes, cCur, cBucket, cUnit, cCalls, cRet, cExists, cFreed>>
    /\ UNCHANGED <<qvars, vvars>>

\* Get_local_storage_unit, lines 148-151: the loop body; current_unit is not
\* advanced when the identities differ. On a match local(bool&) sets exists
\* (line 116). Reading mThreadID of a deallocated node can give either
\* answer.
WalkCompare(t) ==
    /\ cpc[t] = "cmp"
    /\ \E same \in IF cCur[t] \in cFreed THEN BOOLEAN
                    ELSE {nodes[cCur[t]].mThreadID = t} :
          IF same
          THEN /\ cUnit' = [cUnit EXCEPT ![t] = cCur[t]]
               /\ cExists' = [cExists EXCEPT ![t] = TRUE]
               /\ cpc' = [cpc EXCEPT ![t] = "ret"]
          ELSE /\ cpc' = [cpc EXCEPT ![t] = "walk"]
               /\ UNCHANGED <<cUnit, cExists>>
    /\ UNCHANGED <<cHash, mBuckets, nodes, cCur, cBucket, cCalls, cRet, cFreed>>
    /\ UNCHANGED <<qvars, vvars>>

\* Add_local_storage_unit, line 158: bucket = mBuckets[bucket_index]. The
\* access is not synchronised, so the build may read the head again or reuse
\* the value Get_local_storage_unit read (nullptr on this path).
AddRead(t) ==
    /\ cpc[t] = "add"
    /\ \E seen \in {mBuckets[cHash[t]], cCur[t]} :
          cBucket' = [cBucket EXCEPT ![t] = seen]
    /\ cpc' = [cpc EXCEPT ![t] = "link"]
    /\ UNCHANGED <<cHash, mBuckets, nodes, cCur, cUnit, cCalls, cRet, cExists, cFreed>>
    /\ UNCHANGED <<qvars, vvars>>

\* Add_local_storage_unit, lines 160-163: allocate and construct the node,
\* new_storage->nextStorage = bucket
AddLink(t) ==
    /\ cpc[t] = "link"
    /\ nodes' = Append(nodes, [mThreadID |-> t, mValue |-> 0, nextStorage |-> cBucket[t]])
    /\ cUnit' = [cUnit EXCEPT ![t] = Len(nodes) + 1]
    /\ cpc' = [cpc EXCEPT ![t] = "publish"]
    /\ UNCHANGED <<cHash, mBuckets, cCur, cBucket, cCalls, cRet, cExists, cFreed>>
    /\ UNCHANGED <<qvars, vvars>>

\* Add_local_storage_unit, line 164: mBuckets[bucket_index] = new_storage;
\* back in local(bool&), exists = false (line 114)
AddPublish(t) ==
    /\ cpc[t] = "publish"
    /\ mBuckets' = [mBuckets EXCEPT ![cHash[t]] = cUnit[t]]
    /\ cExists' = [cExists EXCEPT ![t] = FALSE]
    /\ cpc' = [cpc EXCEPT ![t] = "ret"]
    /\ UNCHANGED <<cHash, nodes, cCur, cBucket, cUnit, cCalls, cRet, cFreed>>
    /\ UNCHANGED <<qvars, vvars>>

\* local() returns storage_unit->mValue and the caller adds 1 to it
Return(t) ==
    /\ cpc[t] = "ret"
    /\ nodes' = [nodes EXCEPT ![cUnit[t]].mValue = @ + 1]
    /\ cCalls' = [cCalls EXCEPT ![t] = @ + 1]
    /\ cpc' = [cpc EXCEPT ![t] = "idle"]
    /\ cRet' = [cRet EXCEPT ![t] = cUnit[t]]
    /\ UNCHANGED <<cHash, mBuckets, cCur, cBucket, cUnit, cExists, cFreed>>
    /\ UNCHANGED <<qvars, vvars>>

LocalStep(t) ==
    \/ Lookup(t)
    \/ WalkTest(t)
    \/ WalkCompare(t)
    \/ AddRead(t)
    \/ AddLink(t)
    \/ AddPublish(t)
    \/ Return(t)

InitC ==
    /\ IdleQ
    /\ IdleV(EmptyVector, << >>)
    /\ \E h \in [CThreads -> 0..(Min_size - 1)] : IdleC(h)

NextC == \E t \in CThreads : LocalStep(t)

SpecC == InitC /\ [][NextC]_vars

\* Delete_storage_units_in_bucket_ptr(bucket): the nodes deallocated. The
\* parameter is a copy of the bucket's head, so  bucket = nullptr  leaves
\* mBuckets as it was.
Delete_storage_units_in_bucket_ptr(N, bucket) ==
    {ChainFrom(N, bucket, Len(N))[i] : i \in 1..Len(ChainFrom(N, bucket, Len(N)))}

\* Finalise(): the nodes deallocated over all buckets
Finalise(B, N) ==
    UNION {Delete_storage_units_in_bucket_ptr(N, B[b]) : b \in 0..(Min_size - 1)}

\* clear(), called while no thread is inside local() and before anything
\* has been released; the calls are counted afresh from here
ClearC ==
    /\ \A t \in CThreads : cpc[t] = "idle"
    /\ cFreed = {}
    /\ cFreed' = Finalise(mBuckets, nodes)
    /\ cCalls' = [t \in CThreads |-> 0]
    /\ cRet' = [t \in CThreads |-> NullPtr]
    /\ UNCHANGED <<cHash, mBuckets, nodes, cpc, cCur, cBucket, cUnit, cExists>>
    /\ UNCHANGED <<qvars, vvars>>

NextCClear ==
    \/ \E t \in CThreads : LocalStep(t)
    \/ ClearC

SpecCClear == InitC /\ [][NextCClear]_vars

\* ~concurrent_combinable(): Finalise() once more, while no thread is inside
\* local(); nothing is called on the object afterwards
DestroyC ==
    /\ \A t \in CThreads : cpc[t] = "idle"
    /\ cFreed' = cFreed \cup Finalise(mBuckets, nodes)
    /\ cpc' = [t \in CThreads |-> "destroyed"]
    /\ UNCHANGED <<cHash, mBuckets, nodes, cCur, cBucket, cUnit, cCalls, cRet, cExists>>
    /\ UNCHANGED <<qvars, vvars>>

\* the threads' identities hash to the first, the second or the last bucket
InitCEnds ==
    /\ IdleQ
    /\ IdleV(EmptyVector, << >>)
    /\ \E h \in [CThreads -> {0, 1, Min_size - 1}] : IdleC(h)

SpecCEnds == InitCEnds /\ [][NextC]_vars

NextCLife ==
    \/ \E t \in CThreads : LocalStep(t)
    \/ ClearC
    \/ DestroyC

\* the object from construction to destruction
SpecCLife == InitCEnds /\ [][NextCLife]_vars

\* every thread that can take a step of local() eventually takes one
FairSpecC == SpecC /\ \A t \in CThreads : WF_vars(LocalStep(t))

\* thread t has completed its first local() call
Returned(t) == cCalls[t] >= 1

\* C5: when two threads that hash to the same bucket both make their first
\* local() call, both end up with their own entry linked in the bucket's
\* chain, and each call returned the caller's own entry.
C5_BothInserted ==
    \A t1, t2 \in CThreads :
        (t1 # t2 /\ cHash[t1] = cHash[t2] /\ Returned(t1) /\ Returned(t2)) =>
            /\ InChain(cRet[t1], cHash[t1])
            /\ InChain(cRet[t2], cHash[t2])
            /\ nodes[cRet[t1]].mThreadID = t1
            /\ nodes[cRet[t2]].mThreadID = t2

\* C6: every call to local() returns: once a thread has entered the lookup
\* it eventually leaves local().
C6_LocalReturns ==
    \A t \in CThreads : (cpc[t] = "walk") ~> (cpc[t] = "idle")

(***************************************************************************)
(* Vector scenarios                                                        *)
(***************************************************************************)
\* the element values of the single-threaded scenarios
Values == {1}

\* the vectors a test can construct: concurrent_vector() and
\* concurrent_vector({x, ..., x}) with up to MaxCtor elements
Constructed == {Do_in_place_n(Repeat(c, x)) : c \in 0..MaxCtor, x \in Values}

\* frame of a single-threaded vector operation
VectorOp(op, count, value) ==
    /\ ~vec.crashed
    /\ Get_capacity(vec) <= MaxCapacity
    /\ vLastOp' = op
    /\ vArgs' = IF op = "grow_by" THEN <<count, value>> ELSE <<0, 0>>
    /\ UNCHANGED <<qvars, cvars, vCalls, vStart, vPc, vPushed, vFirst>>

\* v.push_back(x)
PushBack ==
    \E x \in Values :
        /\ VectorOp("push_back", 1, x)
        /\ vec' = emplace_back(vec, x)

\* v.grow_by(n, x)
GrowBy ==
    \E n \in 0..MaxGrow, x \in Values :
        /\ VectorOp("grow_by", n, x)
        /\ vec' = grow_by(vec, n, x)

\* v.reserve(n)
Reserve ==
    \E n \in 0..MaxReserve :
        /\ VectorOp("reserve", n, 0)
        /\ vec' = reserve(vec, n)

\* v.assign({x, ..., x}) with n elements
Assign ==
    \E n \in 0..MaxAssign, x \in Values :
        /\ VectorOp("assign", n, x)
        /\ vec' = Assign_range(vec, Repeat(n, x))

\* v.clear()
Clear ==
    /\ VectorOp("clear", 0, 0)
    /\ vec' = clear(vec)

\* v.shrink_to_fit()
ShrinkToFit ==
    \E nonNull \in BOOLEAN :
        /\ VectorOp("shrink_to_fit", 0, 0)
        /\ vec' = shrink_to_fit(vec, nonNull)

\* the initializer lists handed to assign: 1..n ascending and descending
Lists ==
    {[i \in 1..n |-> i] : n \in 0..MaxList} \cup
    {[i \in 1..n |-> n + 1 - i] : n \in 0..MaxList}

\* v.assign(L) with a list of distinct values; the scenario ends by
\* iterating over v
AssignList ==
    \E L \in Lists :
        /\ ~vec.crashed
        /\ Get_capacity(vec) <= MaxCapacity
        /\ vLastOp # "assign(list)"
        /\ vLastOp' = "assign(list)"
        /\ vArgs' = <<Len(L), L>>
        /\ vec' = Assign_range(vec, L)
        /\ UNCHANGED <<qvars, cvars, vCalls, vStart, vPc, vPushed, vFirst>>

\* the scenario ends by reading one element
Modified == vLastOp \notin {"at", "operator[]"}

\* v.at(pos)
At ==
    \E pos \in 0..MaxIndex :
        /\ Modified
        /\ VectorOp("at", 0, 0)
        /\ vec' = at(vec, pos)

\* v[pos], called as its comment requires, with pos < size()
Subscript ==
    \E pos \in 0..MaxIndex :
        /\ Modified
        /\ pos < Get_size(vec)
        /\ VectorOp("operator[]", 0, 0)
        /\ vec' = subscript(vec, pos)

InitV ==
    /\ IdleQ
    /\ IdleC([t \in CThreads |-> 0])
    /\ \E V \in Constructed : IdleV(V, << >>)

NextV == PushBack \/ GrowBy \/ Reserve \/ Assign \/ Clear \/ ShrinkToFit

SpecV == InitV /\ [][NextV]_vars

NextVAt ==
    \/ Modified /\ NextV
    \/ At
    \/ Subscript

SpecVAt == InitV /\ [][NextVAt]_vars

\* v.grow_by(n, x) with size() + n > max_size(): the smallest such n and
\* the largest; the scenario ends with this call
GrowByOverflow ==
    \E n \in {max_size - Get_size(vec) + 1, max_size}, x \in Values :
        /\ vLastOp # "grow_by"
        /\ Get_size(vec) + n > max_size
        /\ n <= max_size
        /\ VectorOp("grow_by", n, x)
        /\ vec' = grow_by(vec, n, x)

NextVOverflow ==
    \/ vLastOp # "grow_by" /\ (PushBack \/ Reserve)
    \/ GrowByOverflow

SpecVOverflow == InitV /\ [][NextVOverflow]_vars

\* the calls that ask the allocator for more than it gives
BigOps == {"reserve(big)", "assign(big)"}

\* v.reserve(n) with n beyond what the allocator gives
ReserveBig ==
    /\ vLastOp \notin BigOps
    /\ VectorOp("reserve(big)", 0, 0)
    /\ vec' = reserve(vec, MaxAlloc + 1)

\* v.assign({x, ..., x}) with capacity() + 1 elements
AssignBig ==
    \E x \in Values :
        /\ vLastOp \notin BigOps
        /\ VectorOp("assign(big)", 0, 0)
        /\ vec' = Assign_range(vec, Repeat(Get_capacity(vec) + 1, x))

\* the scenario ends with one of these calls
NextVAlloc ==
    \/ vLastOp \notin BigOps /\ NextV
    \/ ReserveBig
    \/ AssignBig

SpecVAlloc == InitV /\ [][NextVAlloc]_vars

\* the value thread t appends with its k-th push_back
NextVList ==
    \/ vLastOp # "assign(list)" /\ NextV
    \/ AssignList

SpecVList == InitV /\ [][NextVList]_vars

\* the values appended by test_shrink_push_grow
RegrowValues == {21, 22, 23}

\* frame of statement number pc of test_shrink_push_grow
RegrowStep(pc, op) ==
    /\ vPc = pc
    /\ ~vec.crashed
    /\ vec.exc = "none"
    /\ vPc' = pc + 1
    /\ vLastOp' = op
    /\ UNCHANGED <<qvars, cvars, vArgs, vCalls, vStart>>

\* v.clear()
RegrowClear ==
    /\ RegrowStep(0, "clear")
    /\ vec' = clear(vec)
    /\ UNCHANGED <<vPushed, vFirst>>

\* v.shrink_to_fit()
RegrowShrink ==
    \E nonNull \in BOOLEAN :
        /\ RegrowStep(1, "shrink_to_fit")
        /\ vec' = shrink_to_fit(vec, nonNull)
        /\ UNCHANGED <<vPushed, vFirst>>

\* v.push_back(a); v.push_back(b)
RegrowPush ==
    \E pc \in {2, 3}, x \in RegrowValues :
        /\ RegrowStep(pc, "push_back")
        /\ vec' = emplace_back(vec, x)
        /\ vPushed' = Append(vPushed, x)
        /\ UNCHANGED vFirst

\* auto first = v[0]
RegrowRead ==
    /\ RegrowStep(4, "operator[]")
    /\ IF Get_value_at(vec, 0) = NoRef
       THEN vec' = Crash(vec) /\ UNCHANGED vFirst
       ELSE vec' = vec /\ vFirst' = ValueAt(vec, 0)
    /\ UNCHANGED vPushed

\* v.grow_by(m, c)
RegrowGrow ==
    \E m \in 0..MaxRegrow, c \in RegrowValues :
        /\ RegrowStep(5, "grow_by")
        /\ vec' = grow_by(vec, m, c)
        /\ vPushed' = vPushed \o Repeat(m, c)
        /\ UNCHANGED vFirst

NextVRegrow ==
    \/ RegrowClear
    \/ RegrowShrink
    \/ RegrowPush
    \/ RegrowRead
    \/ RegrowGrow

SpecVRegrow == InitV /\ [][NextVRegrow]_vars

Tag(t, k) == 10 * t + k

\* thread t calls v.push_back(Tag(t, k)); emplace_back holds mMutex from its
\* first to its last statement, so the call is one step
ThreadPush(t) ==
    /\ ~vec.crashed
    /\ vCalls[t] < MaxThreadPush
    /\ vec' = emplace_back(vec, Tag(t, vCalls[t] + 1))
    /\ vCalls' = [vCalls EXCEPT ![t] = @ + 1]
    /\ vLastOp' = "push_back"
    /\ vArgs' = <<1, Tag(t, vCalls[t] + 1)>>
    /\ UNCHANGED <<qvars, cvars, vStart, vPc, vPushed, vFirst>>

NextVPar == \E t \in VThreads : ThreadPush(t)

RECURSIVE PushN(_, _, _)
\* n consecutive v.push_back(x)
PushN(V, n, x) == IF n = 0 THEN V ELSE PushN(emplace_back(V, x), n - 1, x)

\* the vectors the threads start on: constructed, then filled by the main
\* thread with up to MaxPrefill elements
Prefilled == {PushN(V, k, x) : V \in Constructed, k \in 0..MaxPrefill, x \in Values}

InitVPar ==
    /\ IdleQ
    /\ IdleC([t \in CThreads |-> 0])
    /\ \E V \in Prefilled : IdleV(V, Contents(V))

SpecVPar == InitVPar /\ [][NextVPar]_vars

\* largest number of push_back calls that follow the clear() or reserve()
MaxRefill == 10

\* largest excess of the argument of reserve over capacity()
MaxBehind == 2

\* the value the appending calls push
RefillValues == {31}

\* back(): the location mCurrent->mCurrent[-1], none when mCurrent is null
back(V) ==
    IF V.mCurrent = NullPtr THEN NoRef
    ELSE [seg |-> V.mCurrent, off |-> V.segs[V.mCurrent].mCurrent - 1]

\* the vector is built by any of its operations
Build == vPc = 0 /\ NextV

\* v.clear() on a vector of two or more segments
ClearSegments ==
    /\ vPc = 0
    /\ vec.exc = "none"
    /\ vec.mCurrent # NullPtr
    /\ Cardinality({k \in 1..Len(vec.segs) : vec.segs[k].mBegin}) >= 2
    /\ ~vec.crashed
    /\ Get_capacity(vec) <= MaxCapacity
    /\ vLastOp' = "clear"
    /\ vec' = clear(vec)
    /\ vPc' = 1
    /\ vStart' = << >>
    /\ UNCHANGED <<qvars, cvars, vArgs, vCalls, vPushed, vFirst>>

\* v.reserve(n), n above the capacity, the active segment being the last
\* one and partly filled
ReserveBehind ==
    \E n \in 1..MaxBehind :
        /\ vPc = 0
        /\ vec.exc = "none"
        /\ vec.mCurrent # NullPtr
        /\ vec.mCurrent = vec.mEnd
        /\ vec.segs[vec.mCurrent].mBegin
        /\ vec.segs[vec.mCurrent].mCurrent > 0
        /\ vec.segs[vec.mCurrent].mCurrent < vec.segs[vec.mCurrent].mEnd
        /\ \A k \in 1..Len(vec.segs) : vec.segs[k].mCurrent <= vec.segs[k].mEnd
        /\ ~AllocFails(Get_capacity(vec) + n)
        /\ ~vec.crashed
        /\ Get_capacity(vec) <= MaxCapacity
        /\ vLastOp' = "reserve"
        /\ vec' = reserve(vec, Get_capacity(vec) + n)
        /\ vPc' = 2
        /\ vStart' = Contents(vec)
        /\ UNCHANGED <<qvars, cvars, vArgs, vCalls, vPushed, vFirst>>

\* v.push_back(x) after the clear() or the reserve()
Refill ==
    \E x \in RefillValues :
        /\ vPc \in {1, 2}
        /\ ~vec.crashed
        /\ vec.exc = "none"
        /\ Len(vPushed) < MaxRefill
        /\ vLastOp' = "push_back"
        /\ vec' = emplace_back(vec, x)
        /\ vPushed' = Append(vPushed, x)
        /\ UNCHANGED <<qvars, cvars, vArgs, vCalls, vStart, vPc, vFirst>>

NextVRefill ==
    \/ Build
    \/ ClearSegments
    \/ ReserveBehind
    \/ Refill

SpecVRefill == InitV /\ [][NextVRefill]_vars

(***************************************************************************)
(* Vector claims                                                           *)
(***************************************************************************)
\* the element locations of V that hold its elements 0 .. size() - 1
Locations(V) == [i \in 1..Get_size(V) |-> Get_value_at(V, i - 1)]

\* segment k of V is still segment k of W, with the same storage
SameStorage(V, W, k) ==
    /\ k <= Len(W.segs)
    /\ W.segs[k].mBegin = V.segs[k].mBegin
    /\ W.segs[k].mEnd = V.segs[k].mEnd

\* C3: a push_back / emplace_back that returns leaves every element that
\* existed before it at the storage location it had (same segment, same
\* offset, segment storage not replaced) and with the value it had, so
\* references and pointers taken before the call stay valid.
C3_ReferencesStable ==
    [][(vLastOp' = "push_back" /\ ~vec'.crashed) =>
          \A i \in 1..Get_size(vec) :
              /\ Get_size(vec') >= i
              /\ Locations(vec')[i] = Locations(vec)[i]
              /\ Locations(vec)[i].seg # 0
              /\ SameStorage(vec, vec', Locations(vec)[i].seg)
              /\ Contents(vec')[i] = Contents(vec)[i]]_vars

\* a push_back has just opened a further segment behind two segments that
\* hold elements
C3_Witness ==
    /\ vLastOp = "push_back"
    /\ ~vec.crashed
    /\ Len(vec.segs) >= 3
    /\ vec.mCurrent = vec.mEnd
    /\ vec.segs[vec.mEnd].mCurrent = 1
    /\ Get_size(vec) > Min_segment_size

RECURSIVE SumCalls(_)
\* the number of push_back calls made by the threads 1 .. t
SumCalls(t) == IF t = 0 THEN 0 ELSE vCalls[t] + SumCalls(t - 1)

\* the indices at which the sequence C holds the value x
Positions(C, x) == {i \in 1..Len(C) : C[i] = x}

\* C4: with only push_back calls running, from several threads, on a vector
\* that was only appended to: the size is the initial size plus the number
\* of calls, the initial elements are unchanged, every pushed value is found
\* at exactly one index, the values of one thread stand in the order of its
\* calls, and the reference a call returns is to the element it appended.
C4_ConcurrentAppend ==
    LET C == Contents(vec)
    IN  /\ ~vec.crashed
        /\ ~vec.fault
        /\ vec.exc = "none"
        /\ Len(C) = Len(vStart) + SumCalls(NThreads)
        /\ SubSeq(C, 1, Len(vStart)) = vStart
        /\ \A t \in VThreads : \A k \in 1..vCalls[t] :
               Cardinality(Positions(C, Tag(t, k))) = 1
        /\ \A t \in VThreads : \A k \in 1..(vCalls[t] - 1) :
               \A i \in Positions(C, Tag(t, k)) : \A j \in Positions(C, Tag(t, k + 1)) :
                   i < j
        /\ vLastOp = "push_back" =>
               /\ vec.ret.seg # 0
               /\ vec.segs[vec.ret.seg].elems[vec.ret.off + 1] = vArgs[2]

\* all threads are done, their elements are interleaved, and the calls
\* opened a third segment
C4_Witness ==
    LET C == Contents(vec)
    IN  /\ \A t \in VThreads : vCalls[t] = MaxThreadPush
        /\ Len(vec.segs) >= 3
        /\ \E i, j, k \in 1..Len(C) :
               /\ i < j /\ j < k
               /\ C[i] = Tag(1, 1) /\ C[j] = Tag(2, 1) /\ C[k] = Tag(1, 2)

\* C9: after every public operation that returns, size() <= capacity().
C9_SizeWithinCapacity ==
    ~vec.crashed => Get_size(vec) <= Get_capacity(vec)

\* a grow_by has filled a vector of two or more segments up to its capacity
C9_Witness ==
    /\ vLastOp = "grow_by"
    /\ ~vec.crashed
    /\ Len(vec.segs) >= 2
    /\ Get_size(vec) = Get_capacity(vec)
    /\ Get_size(vec) > Min_segment_size

\* C10: from any reachable state in which n consecutive push_back(v) calls
\* succeed, a grow_by(n, v) that does not fail for lack of memory leaves the
\* vector with the size and the element sequence those n calls leave, links
\* at most one new segment, and a further push_back(v) is accepted and has
\* the result it has after the n calls.
C10_GrowByLikePushBacks ==
    [][(vLastOp' = "grow_by" /\ vec'.exc = "none") =>
          LET n  == vArgs'[1]
              x  == vArgs'[2]
              P  == PushN(vec, n, x)
              W  == emplace_back(vec', x)
              WP == emplace_back(P, x)
          IN  (~P.crashed /\ P.exc = "none") =>
                  /\ ~vec'.crashed
                  /\ Get_size(vec') = Get_size(P)
                  /\ Contents(vec') = Contents(P)
                  /\ Len(vec'.segs) <= Len(vec.segs) + 1
                  /\ W.crashed = WP.crashed
                  /\ (~W.crashed /\ ~WP.crashed) => Contents(W) = Contents(WP)]_vars

\* C11: a shrink_to_fit() that returns without an exception leaves
\* capacity() == size() and the element sequence as it was; in particular
\* an empty vector is left with capacity 0.
C11_ShrinkToFit ==
    [][(vLastOp' = "shrink_to_fit" /\ vec'.exc = "none") =>
          /\ ~vec'.crashed
          /\ Get_capacity(vec') = Get_size(vec')
          /\ Contents(vec') = Contents(vec)
          /\ (Get_size(vec) = 0 => Get_capacity(vec') = 0)]_vars

\* shrink_to_fit has gathered more elements than one minimal segment holds
\* into a single segment
C11_Witness ==
    /\ vLastOp = "shrink_to_fit"
    /\ ~vec.crashed
    /\ Len(vec.segs) = 1
    /\ Get_size(vec) > Min_segment_size
    /\ Get_capacity(vec) = Get_size(vec)

\* C12: after v.assign(L) has returned on a vector in any reachable state,
\* size() == |L| and iterating from begin() to end() yields the elements of
\* L in order.
C12_AssignThenIterate ==
    (vLastOp = "assign(list)" /\ vec.exc = "none" /\ ~vec.crashed) =>
        /\ Get_size(vec) = vArgs[1]
        /\ Iterate(vec) = vArgs[2]

\* a list of three distinct values has been assigned over several segments
C12_Witness ==
    /\ vLastOp = "assign(list)"
    /\ vec.exc = "none"
    /\ ~vec.crashed
    /\ Len(vec.segs) > 1
    /\ Iterate(vec) = <<3, 2, 1>>

\* C13: a vector constructed with k elements, then clear() and
\* shrink_to_fit(): push_back(a), push_back(b), grow_by(m, c) all return and
\* leave exactly [a, b, c repeated m times]; the value read from index 0
\* before grow_by is a and is still at index 0 after it.
C13_ResetAndRegrow ==
    /\ ~vec.crashed
    /\ ~vec.fault
    /\ vec.exc = "none"
    /\ vPc >= 3 => SubSeq(Contents(vec), 1, Len(vPushed)) = vPushed
    /\ vPc >= 5 => vFirst = vPushed[1]
    /\ vPc = 6 => Contents(vec) = vPushed /\ ValueAt(vec, 0) = vFirst

\* C14: when every thread has called local() += 1 exactly once and all the
\* calls have returned, combine(sum) returns the number of threads, for
\* every assignment of the threads to buckets and every interleaving.
C14_SumScenario ==
    (\A t \in CThreads : cCalls[t] = 1 /\ cpc[t] = "idle") =>
        combine(Sum, mBuckets, nodes) = NThreads

\* the entries of the table that belong to thread t, as combine_each meets
\* them
EntriesOf(t) ==
    {i \in 1..Len(combine_each(mBuckets, nodes)) :
        nodes[combine_each(mBuckets, nodes)[i]].mThreadID = t}

\* C15: the table holds at most one entry per thread identity, and
\* combine_each invokes its function exactly once for each thread that has
\* called local(), whatever the order of the calls.
C15_OneEntryPerThread ==
    \A t \in CThreads :
        /\ Cardinality(EntriesOf(t)) <= 1
        /\ Returned(t) => Cardinality(EntriesOf(t)) = 1

\* the functor used to observe the order of a fold: not commutative and not
\* associative
Digits == "digits"

RECURSIVE EntriesInOrder(_)
\* the entries of the buckets 0 .. b in bucket-index order, each bucket's
\* chain from its head
EntriesInOrder(b) ==
    IF b < 0 THEN << >> ELSE EntriesInOrder(b - 1) \o BucketChain(b)

RECURSIVE LeftFold(_, _, _)
\* the left fold of func over the values vs with seed acc
LeftFold(func, acc, vs) ==
    IF vs = << >> THEN acc ELSE LeftFold(func, Invoke(func, acc, Head(vs)), Tail(vs))

\* C16: combine(f) is the left fold of f over the stored values in
\* bucket-index order and chain order, seeded with the first value and using
\* each entry once; with no entry it is the default value.
C16_FoldOrder ==
    LET order == EntriesInOrder(Min_size - 1)
        vals  == [i \in 1..Len(order) |-> nodes[order[i]].mValue]
    IN  /\ CombineVisits(mBuckets, nodes) = order
        /\ combine(Digits, mBuckets, nodes) =
               IF order = << >> THEN DefaultValue
               ELSE LeftFold(Digits, Head(vals), Tail(vals))
        /\ combine(Sum, mBuckets, nodes) =
               IF order = << >> THEN DefaultValue
               ELSE LeftFold(Sum, Head(vals), Tail(vals))

\* two entries with different values in different buckets, the larger value
\* in the lower bucket
C16_Witness ==
    /\ Len(CombineVisits(mBuckets, nodes)) = 2
    /\ cHash[1] # cHash[2]
    /\ combine(Digits, mBuckets, nodes) = 21

\* C17: after clear() has returned every bucket is empty (no bucket head
\* refers to a released entry), combine returns the default value and
\* combine_each visits nothing.
C17_ClearEmpties ==
    /\ \A b \in 0..(Min_size - 1) : mBuckets[b] \notin cFreed
    /\ (cFreed # {} /\ \A t \in CThreads : cCalls[t] = 0 /\ cpc[t] = "idle") =>
           /\ \A b \in 0..(Min_size - 1) : mBuckets[b] = NullPtr
           /\ combine(Sum, mBuckets, nodes) = DefaultValue
           /\ combine_each(mBuckets, nodes) = << >>

\* C18: when local(existed) is about to return, existed is false exactly on
\* the thread's first call since construction or the last clear() and the
\* entry then holds the default value; on a later call existed is true and
\* the entry is the one returned before, holding the value last stored.
C18_ExistenceFlag ==
    \A t \in CThreads :
        cpc[t] = "ret" =>
            IF cCalls[t] = 0
            THEN ~cExists[t] /\ nodes[cUnit[t]].mValue = DefaultValue
            ELSE /\ cExists[t]
                 /\ cUnit[t] = cRet[t]
                 /\ nodes[cUnit[t]].mValue = cCalls[t]

\* C19: try_pop on a queue with no live element (never used, or every
\* pushed element already popped) returns false, sets dest to the default
\* value, raises no error and leaves blocks, cursors and links unchanged.
C19_PopOnEmpty ==
    [][(lastPop' # "none" /\ Len(pushed) = Len(popped)) =>
          /\ lastPop' = "empty"
          /\ dest' = DefaultElement
          /\ q' = q
          /\ popped' = popped]_vars

\* a failed try_pop after more than one block's worth of elements has been
\* pushed and popped
C19_Witness ==
    /\ lastPop = "empty"
    /\ dest = DefaultElement
    /\ Len(pushed) = Len(popped)
    /\ Len(popped) > Min_queue_size
    /\ ~q.crashed

\* C20: when each push(v) is immediately followed by one try_pop, every
\* try_pop succeeds and returns the value just pushed, the queue is empty
\* after each round, and no second block is allocated, for any number of
\* rounds (more than a block holds included).
C20_AlternatingRounds ==
    /\ ~q.crashed
    /\ ~q.fault
    /\ Len(q.blocks) <= 1
    /\ Len(pushed) = genCount
    /\ (qphase = "produce" /\ genCount >= 1) =>
           /\ lastPop = "ok"
           /\ dest = genCount
           /\ popped = pushed
           /\ empty(q)

\* the single block has wrapped around twice and a round has just ended
C20_Witness ==
    /\ qphase = "produce"
    /\ genCount > 2 * Min_queue_size
    /\ lastPop = "ok"
    /\ dest = genCount
    /\ Len(q.blocks) = 1
    /\ empty(q)

\* the number of blocks a queue needs at most while it never holds more than
\* k elements: the blocks are at least Min_queue_size long
BlockBound(k) == k \div Min_queue_size + 2

\* C21: in every execution of push and try_pop in which the number of live
\* elements never exceeds k, the number of blocks ever allocated is bounded
\* by a constant that depends only on k and the block capacity, however
\* many push/pop cycles are made.
C21_RecyclingBound == Len(q.blocks) <= BlockBound(qPeak)

\* three times a block's worth of elements has gone through a queue that never
\* held more than two at a time, with two blocks allocated in all
C21_Witness ==
    /\ qPeak = 2
    /\ Len(popped) >= 3 * Min_queue_size
    /\ Len(q.blocks) = 2
    /\ ~q.crashed

\* the step is a clear() that returned
ClearReturned == lastPop' = "clear" /\ ~q'.crashed

\* C24: after clear() the queue is empty, it has the same blocks with the same
\* capacities, every block's mUsedBegin and mCurrent are at the block start,
\* and the values pushed after the clear are popped in FIFO order, none lost.
C24_ClearThenFifo ==
    /\ [][ClearReturned =>
            /\ empty(q')
            /\ Len(q'.blocks) = Len(q.blocks)
            /\ \A b \in 1..Len(q.blocks) :
                  /\ q'.blocks[b].mEnd = q.blocks[b].mEnd
                  /\ q'.blocks[b].mUsedBegin = 0
                  /\ q'.blocks[b].mCurrent = [blk |-> b, off |-> 0]]_vars
    /\ [](qphase = "cleared" =>
            /\ IsPrefix(popped, pushed)
            /\ (lastPop = "empty" => popped = pushed))

\* thread t is executing the body of a public queue operation
InBody(t) ==
    \/ lpc[t] = "clear"
    \/ lpc[t] \in LockingOps /\ mMutex = t

\* C22: a thread that is inside a public queue operation, clear() included,
\* holds the queue's mutex, and no other thread is inside a queue operation at
\* the same time.
C22_LockCoverage ==
    \A t \in Callers :
        InBody(t) => /\ mMutex = t
                     /\ \A u \in Callers \ {t} : ~InBody(u)

\* C23: under fair scheduling every call of push, try_pop or empty returns;
\* a thread that has returned does not hold the mutex, whether it returned
\* normally or by exception; and try_pop on an empty queue returns false in
\* the step that tested the queue, leaving the queue as it was.
C23_CallsReturn ==
    /\ \A t \in Callers : (lpc[t] # "idle") ~> (lpc[t] = "idle" \/ q.crashed)
    /\ [](\A t \in Callers : lpc[t] = "idle" => mMutex # t)
    /\ [][\A t \in Callers :
            lpc[t] = "try_pop" /\ mMutex = t /\ empty(q) /\ lpc'[t] # lpc[t]
                => lpc'[t] = "idle" /\ lRet'[t] = "false" /\ q' = q]_vars

C23_Witness ==
    \E t \in Callers, u \in Callers :
        /\ t # u
        /\ lRet[t] = "throw"
        /\ lRet[u] = "false"
        /\ lpc[t] = "idle" /\ lpc[u] = "idle"
        /\ mMutex = 0
        /\ lCalls = MaxQCalls

\* the chains of V and W consist of the same segments: as many, each with
\* the same storage attached and the same capacity
SameSegments(V, W) ==
    /\ Len(V.segs) = Len(W.segs)
    /\ V.mEnd = W.mEnd
    /\ \A k \in 1..Len(V.segs) :
          /\ V.segs[k].mBegin = W.segs[k].mBegin
          /\ V.segs[k].mEnd = W.segs[k].mEnd

\* C25: clear() on a vector in any reachable state returns with size() == 0
\* and empty() true, and leaves capacity() and the allocated segments as
\* they were.
C25_ClearKeepsStorage ==
    [][vLastOp' = "clear" =>
          /\ ~vec'.crashed
          /\ vec'.exc = "none"
          /\ Get_size(vec') = 0
          /\ vector_empty(vec')
          /\ Get_capacity(vec') = Get_capacity(vec)
          /\ SameSegments(vec, vec')]_vars

\* a vector of two segments has been cleared
C25_Witness ==
    /\ vLastOp = "clear"
    /\ Len(vec.segs) = 2
    /\ Get_capacity(vec) = 2 * Min_segment_size
    /\ Get_size(vec) = 0

C27_LengthError ==
    [][(vLastOp' = "grow_by" /\ Get_size(vec) + vArgs'[1] > max_size) =>
          /\ ~vec'.crashed
          /\ vec'.exc = "length_error"
          /\ vec'.segs = vec.segs
          /\ vec'.mCurrent = vec.mCurrent
          /\ vec'.mEnd = vec.mEnd]_vars

\* C28: a vector operation in which the allocator fails propagates the
\* failure and leaves size(), capacity(), the element sequence and the
\* segment chain as they were before the call.
C28_AllocFailure ==
    [][vec'.exc = "bad_alloc" =>
          /\ Get_size(vec') = Get_size(vec)
          /\ Get_capacity(vec') = Get_capacity(vec)
          /\ Contents(vec') = Contents(vec)
          /\ SameSegments(vec, vec')]_vars

\* C29: a queue copy-constructed from a source with the live elements
\* e1..en holds e1..en itself.
C29_DeepCopy ==
    qCopy.made => Drained(qCopy.obj) = Drained(qCopy.src)

\* C30: in every reachable state each segment's mCurrent lies between its
\* mBegin and its mEnd, the segments before the active one (vector mCurrent)
\* are full and those after it are empty, and every index below size()
\* resolves to a location below the mCurrent of its segment.
C30_SegmentCursors ==
    ~vec.crashed =>
        /\ \A k \in 1..Len(vec.segs) :
              /\ vec.segs[k].mCurrent <= vec.segs[k].mEnd
              /\ (vec.mCurrent # NullPtr /\ k < vec.mCurrent) =>
                     vec.segs[k].mCurrent = vec.segs[k].mEnd
              /\ (vec.mCurrent # NullPtr /\ k > vec.mCurrent) =>
                     vec.segs[k].mCurrent = 0
        /\ \A i \in 0..(Get_size(vec) - 1) :
              /\ Get_value_at(vec, i) # NoRef
              /\ Get_value_at(vec, i).off < vec.segs[Get_value_at(vec, i).seg].mCurrent

\* the operations that may add capacity
GrowingOps == {"push_back", "grow_by", "reserve"}

\* C31: a push_back, grow_by or reserve that returns keeps every segment of
\* the chain where it was, with its storage and capacity, links a new
\* segment only behind the last one, and never lowers capacity().
C31_GrowsAtTail ==
    [][(vLastOp' \in GrowingOps /\ ~vec'.crashed /\ vec'.exc = "none") =>
          /\ Len(vec'.segs) >= Len(vec.segs)
          /\ \A k \in 1..Len(vec.segs) :
                (vec.segs[k].mBegin /\ k <= Len(vec'.segs)) =>
                    /\ vec'.segs[k].mBegin
                    /\ vec'.segs[k].mEnd = vec.segs[k].mEnd
          /\ Get_capacity(vec') >= Get_capacity(vec)]_vars

\* C32: after every push and try_pop each block's mCurrent points into the
\* block itself with mBegin <= mUsedBegin <= mCurrent <= mEnd, no push has
\* constructed an element at or beyond mEnd, and the slots of
\* [mUsedBegin, mCurrent) are exactly the slots that hold an element.
C32_BlockCursors ==
    ~q.crashed =>
        /\ ~q.fault
        /\ \A b \in 1..Len(q.blocks) :
              /\ q.blocks[b].mCurrent.blk = b
              /\ q.blocks[b].mUsedBegin <= q.blocks[b].mCurrent.off
              /\ q.blocks[b].mCurrent.off <= q.blocks[b].mEnd
              /\ \A i \in 1..q.blocks[b].mEnd :
                    (q.blocks[b].mElements[i] # 0) <=>
                        (q.blocks[b].mUsedBegin < i /\ i <= q.blocks[b].mCurrent.off)

\* the blocks met from block b along mNextQueue, at most fuel of them
RECURSIVE BlocksFrom(_, _, _)
BlocksFrom(Q, b, fuel) ==
    IF b = NullPtr \/ fuel = 0
    THEN <<>>
    ELSE <<b>> \o BlocksFrom(Q, Q.blocks[b].mNextQueue, fuel - 1)

\* one acyclic chain from mQueue holding every allocated block once, ended
\* by mQueueEnd, with mQueueCurrent on it
ChainIntact(Q) ==
    LET n == Len(Q.blocks)
        c == BlocksFrom(Q, Q.mQueue, n + 1)
    IN  /\ Len(c) = n
        /\ {c[i] : i \in 1..Len(c)} = 1..n
        /\ n > 0 =>
              /\ c[n] = Q.mQueueEnd
              /\ Q.blocks[Q.mQueueEnd].mNextQueue = NullPtr
              /\ Q.mQueueCurrent \in 1..n

\* C33: after every push and try_pop the blocks form one acyclic chain from
\* the head that holds every block ever allocated exactly once, the tail
\* pointer designates the last block, whose link is null, the write pointer
\* designates a block of the chain, and no step removes a block
C33_ChainIntegrity ==
    /\ [](~q.crashed => ChainIntact(q))
    /\ [][~q'.crashed => Len(q'.blocks) >= Len(q.blocks)]_vars

\* a drained head block has been moved behind the tail of a three-block chain
C33_Witness ==
    /\ ~q.crashed
    /\ Len(q.blocks) >= 3
    /\ q.mQueue # 1
    /\ q.mQueueEnd # Len(q.blocks)
    /\ Len(popped) > 0
\* the segments of V that own storage
Allocated(V) == {k \in 1..Len(V.segs) : V.segs[k].mBegin}

\* the call that leads to the next state takes the appending branch:
\* push_back with the last segment full, grow_by beyond the capacity
Appending ==
    \/ /\ vLastOp' = "push_back"
       /\ vec.mCurrent # NullPtr
       /\ ~HasRoomTest(vec)
    \/ /\ vLastOp' = "grow_by"
       /\ Get_size(vec) + vArgs'[1] > Get_capacity(vec)

\* C34: when push_back finds the last segment full, or grow_by needs more
\* than the capacity, exactly one segment is appended, of capacity
\* max(MinSeg, max(cap + cap div 2, requested) - cap); capacity() afterwards
\* is cap plus that amount and at least the requested size
C34_GrowthPolicy ==
    [][(Appending /\ ~vec'.crashed /\ vec'.exc = "none") =>
          LET cap       == Get_capacity(vec)
              requested == Get_size(vec) + (IF vLastOp' = "grow_by" THEN vArgs'[1] ELSE 1)
              amount    == Max(Min_segment_size, Max(cap + cap \div 2, requested) - cap)
              last      == Len(vec'.segs)
          IN  /\ Cardinality(Allocated(vec')) = Cardinality(Allocated(vec)) + 1
              /\ \A k \in Allocated(vec) :
                    /\ k \in Allocated(vec')
                    /\ vec'.segs[k].mEnd = vec.segs[k].mEnd
              /\ vec'.segs[last].mEnd = amount
              /\ Get_capacity(vec') = cap + amount
              /\ Get_capacity(vec') >= requested]_vars
\* the state push_back is called in by the claim C35: size() was just made
\* equal to capacity() by assign or grow_by, or clear() ran on a vector
\* that never allocated storage
ExactlyFullOrBlank ==
    \/ /\ vLastOp \in {"assign", "grow_by"}
       /\ vec.exc = "none"
       /\ Get_size(vec) = Get_capacity(vec)
    \/ /\ vLastOp = "clear"
       /\ Allocated(vec) = {}

\* C35: after any public operation returns, mCurrent designates a segment
\* of the chain; a push_back(v) that follows an assign or grow_by to
\* size() == capacity(), or a clear() of a never-allocated vector, returns,
\* makes size() grow by one and places v at the index of the old size()
C35_ActiveSegment ==
    /\ [](~vec.crashed => vec.mCurrent \in 1..Len(vec.segs))
    /\ [][(vLastOp' = "push_back" /\ ExactlyFullOrBlank) =>
             /\ ~vec'.crashed
             /\ vec'.exc = "none"
             /\ Get_size(vec') = Get_size(vec) + 1
             /\ ValueAt(vec', Get_size(vec)) \in Values]_vars
\* every constructed-end cursor lies inside its segment, the segments before
\* the active one are full and those behind it hold nothing
CursorsAdvance(V) ==
    /\ V.mCurrent \in 1..Len(V.segs)
    /\ \A k \in 1..Len(V.segs) :
          /\ V.segs[k].mCurrent <= V.segs[k].mEnd
          /\ k < V.mCurrent => V.segs[k].mCurrent = V.segs[k].mEnd
          /\ k > V.mCurrent => V.segs[k].mCurrent = 0

\* the appending calls returned and the vector holds what it held before
\* them followed by the values they pushed
Appended ==
    /\ ~vec.crashed
    /\ ~vec.fault
    /\ vec.exc = "none"
    /\ Contents(vec) = vStart \o vPushed

\* C36: after clear() on a vector of two or more segments the n-th
\* push_back makes size() == n with its value at index n-1, the active
\* segment advances through the retained segments as each fills, and no
\* storage outside the chain is accessed
C36_AppendAfterClear ==
    (vPc = 1 /\ vLastOp = "push_back") =>
        /\ Appended
        /\ CursorsAdvance(vec)
        /\ Get_size(vec) = Len(vPushed)

\* C37: after reserve(n) appended a segment behind a partly filled active
\* segment, every push_back stores its value at the index of the old size(),
\* no constructed-end cursor passes its segment's capacity end, the reserved
\* segment becomes active once the earlier one is full, and back() is the
\* last value pushed
C37_AppendAfterReserve ==
    (vPc = 2 /\ vLastOp = "push_back") =>
        /\ Appended
        /\ CursorsAdvance(vec)
        /\ back(vec) = Get_value_at(vec, Get_size(vec) - 1)
\* block b holds an element that was pushed and not yet popped
HoldsLive(Q, b) == \E i \in 1..Q.blocks[b].mEnd : Q.blocks[b].mElements[i] # 0

\* C38: in every state reached by push and try_pop, empty() is true (and
\* try_pop returns false) exactly when as many pops succeeded as pushes
\* completed, and the head block is not drained while another block holds
\* live elements
C38_EmptyAccurate ==
    (~q.crashed /\ ~q.fault) =>
        /\ empty(q) <=> Len(pushed) = Len(popped)
        /\ (q.mQueue # NullPtr /\ AtUsedBegin(q, q.mQueue)) =>
              \A b \in 1..Len(q.blocks) : ~HoldsLive(q, b)
\* C39: when no operation is in progress, in every state reached by push
\* and try_pop, unsafe_size() is the number of elements pushed and not yet
\* popped, and so is the size a push that allocates a block computes its
\* capacity from
C39_UnsafeSize ==
    (~q.crashed /\ ~q.fault) =>
        \A d \in CrossDiffs :
            /\ unsafe_size(q, d) = Len(pushed) - Len(popped)
            /\ PushRequest(q, d) >= 0 => PushRequest(q, d) = Len(pushed) - Len(popped)
\* C40: over the lifetime of a combinable every entry node is deallocated
\* exactly once: local() reads no released node, and the destruction
\* deallocates no node that clear() already released and leaves no node
\* allocated
C40_ReleasedOnce ==
    /\ [](\A t \in CThreads : cpc[t] = "cmp" => cCur[t] \notin cFreed)
    /\ [][(\A t \in CThreads : cpc'[t] = "destroyed") =>
             /\ Finalise(mBuckets, nodes) \cap cFreed = {}
             /\ cFreed' = 1..Len(nodes)]_vars
====
